---- MODULE Spec2Model ----
(***************************************************************************)
(* Session / authentication lifecycle of the blog server:                  *)
(*   - SessionManager (middleware/session.js): generateToken, verifyToken, *)
(*     revokeToken, cleanupBlacklist, authenticate                         *)
(*   - server.js: authLimiter, POST /api/auth/login, POST /api/auth/logout,*)
(*     GET /api/auth/verify, the /api/admin/... endpoints                  *)
(* Time is counted in whole seconds.                                       *)
(***************************************************************************)
EXTENDS Integers, Sequences, FiniteSets, TLC

(* ---------------- program constants ---------------- *)
tokenLifetime == 1800
maxLoginAttempts == 5
lockoutDuration == 900
authWindow == 900
authMax == 5
blacklistLimit == 1000

jwtSecret == "server-secret"
Issuer == "blog-system"
Audience == "blog-users"

(* ---------------- bounds of the exploration ---------------- *)
MaxTime == 1801
LoginHorizon == 901
NumIPs == 1
MaxHeld == 1
OverflowHorizon == 1
LimiterHorizon == 900
MaxPending == 2
NumTabs == 2
ClientHorizon == 2400

\* SQL NULL in the locked_until column
NULL == -1
IPs == 1..NumIPs

\* The instants at which something happens: every multiple of fifteen
\* minutes, one second before it and one second after it.
Instants == {t \in 0..MaxTime : t % lockoutDuration \in {0, 1, lockoutDuration - 1}}

(* ---------------- credential store ---------------- *)
bcryptHash(password) == <<"bcrypt", password>>

bcryptCompare(password, hash) == hash = bcryptHash(password)

Usernames == {"admin", "editor"}

\* the users table right after setup: no failed attempts, no lock
InitUsers ==
    [u \in Usernames |->
        IF u = "admin"
        THEN [id |-> 1, username |-> u, password_hash |-> bcryptHash("pwA"),
              role |-> "admin", login_attempts |-> 0, locked_until |-> NULL]
        ELSE [id |-> 2, username |-> u, password_hash |-> bcryptHash("pwE"),
              role |-> "editor", login_attempts |-> 0, locked_until |-> NULL]]

(* ---------------- tokens ---------------- *)
NoClaims == [id |-> 0, username |-> "", role |-> "", iat |-> 0, ip |-> 0,
             userAgent |-> "", exp |-> 0, iss |-> "", aud |-> ""]

jwtSign(claims, secret) == [parts |-> 3, claims |-> claims, sig |-> [key |-> secret, of |-> claims]]

\* a string that is not a JWT at all
Garbage == [parts |-> 1, claims |-> NoClaims, sig |-> [key |-> "", of |-> NoClaims]]

NoToken == [parts |-> 0, claims |-> NoClaims, sig |-> [key |-> "", of |-> NoClaims]]

\* a token that lives twice as long
generateToken_Long(user, ip, ua, t) ==
    jwtSign([id |-> user.id, username |-> user.username, role |-> user.role,
             iat |-> t, ip |-> ip, userAgent |-> ua,
             exp |-> t + 2 * tokenLifetime, iss |-> Issuer, aud |-> Audience],
            jwtSecret)

generateToken(user, ip, ua, t) ==
    jwtSign([id |-> user.id, username |-> user.username, role |-> user.role,
             iat |-> t, ip |-> ip, userAgent |-> ua,
             exp |-> t + tokenLifetime, iss |-> Issuer, aud |-> Audience],
            jwtSecret)

\* jwt.verify that never looks at the signature
jwtVerify_NoSignature(token, secret, t) ==
    IF token.parts # 3 THEN "jwt malformed"
    ELSE IF t >= token.claims.exp THEN "jwt expired"
    ELSE IF token.claims.aud # Audience THEN "jwt audience invalid"
    ELSE IF token.claims.iss # Issuer THEN "jwt issuer invalid"
    ELSE "ok"

\* jwt.verify that never looks at the exp claim
jwtVerify_NoExpiry(token, secret, t) ==
    IF token.parts # 3 THEN "jwt malformed"
    ELSE IF token.sig # [key |-> secret, of |-> token.claims] THEN "invalid signature"
    ELSE IF token.claims.aud # Audience THEN "jwt audience invalid"
    ELSE IF token.claims.iss # Issuer THEN "jwt issuer invalid"
    ELSE "ok"

\* jwt.verify(token, secret, {issuer, audience}): the error it throws, or "ok"
jwtVerify(token, secret, t) ==
    IF token.parts # 3 THEN "jwt malformed"
    ELSE IF token.sig # [key |-> secret, of |-> token.claims] THEN "invalid signature"
    ELSE IF t >= token.claims.exp THEN "jwt expired"
    ELSE IF token.claims.aud # Audience THEN "jwt audience invalid"
    ELSE IF token.claims.iss # Issuer THEN "jwt issuer invalid"
    ELSE "ok"

\* verifyToken without the blacklist lookup
verifyToken_NoBlacklist(token, blacklist, t) ==
    LET e == jwtVerify(token, jwtSecret, t) IN
    IF e # "ok" THEN [ok |-> FALSE, decoded |-> NoClaims, error |-> e]
    ELSE [ok |-> TRUE, decoded |-> token.claims, error |-> ""]

verifyToken(token, blacklist, t) ==
    LET e == jwtVerify(token, jwtSecret, t) IN
    IF e # "ok" THEN [ok |-> FALSE, decoded |-> NoClaims, error |-> e]
    ELSE IF token \in blacklist
         THEN [ok |-> FALSE, decoded |-> NoClaims, error |-> "Token has been revoked"]
         ELSE [ok |-> TRUE, decoded |-> token.claims, error |-> ""]

\* revoking a revoked token takes it out again
revokeToken_Toggle(blacklist, token) ==
    IF token \in blacklist THEN blacklist \ {token} ELSE blacklist \cup {token}

revokeToken(blacklist, token) == blacklist \cup {token}

cleanupBlacklist(blacklist) ==
    IF Cardinality(blacklist) > blacklistLimit THEN {} ELSE blacklist

\* authHeader && authHeader.split(' ')[1]; the header is given as its words
ExtractToken(authHeader) ==
    IF Len(authHeader) >= 2 THEN authHeader[2] ELSE NoToken

\* authenticate answering 401 for a token that fails verification
authenticate_401(authHeader, blacklist, t) ==
    LET token == ExtractToken(authHeader) IN
    IF token = NoToken
    THEN [next |-> FALSE, status |-> 401, code |-> "NO_TOKEN", user |-> NoClaims,
          token |-> NoToken, error |-> ""]
    ELSE LET v == verifyToken(token, blacklist, t) IN
         IF v.ok
         THEN [next |-> TRUE, status |-> 200, code |-> "", user |-> v.decoded,
               token |-> token, error |-> ""]
         ELSE [next |-> FALSE, status |-> 401, code |-> "INVALID_TOKEN", user |-> NoClaims,
               token |-> NoToken, error |-> v.error]

\* the authentication middleware: what it answers, and what it attaches
authenticate(authHeader, blacklist, t) ==
    LET token == ExtractToken(authHeader) IN
    IF token = NoToken
    THEN [next |-> FALSE, status |-> 401, code |-> "NO_TOKEN", user |-> NoClaims,
          token |-> NoToken, error |-> ""]
    ELSE LET v == verifyToken(token, blacklist, t) IN
         IF v.ok
         THEN [next |-> TRUE, status |-> 200, code |-> "", user |-> v.decoded,
               token |-> token, error |-> ""]
         ELSE [next |-> FALSE, status |-> 403, code |-> "INVALID_TOKEN", user |-> NoClaims,
               token |-> NoToken, error |-> v.error]

\* the role that the only configured case requires
RequiredRoles == {"admin", "editor"}

\* requireRole that lets every attached identity through
requireRole_Any(requiredRole, reqUser) ==
    IF reqUser = NoClaims
    THEN [next |-> FALSE, status |-> 401, error |-> "Authentication required",
          required |-> "", current |-> ""]
    ELSE [next |-> TRUE, status |-> 200, error |-> "", required |-> "", current |-> ""]

\* the authorization middleware; reqUser is req.user, NoClaims when absent
requireRole(requiredRole, reqUser) ==
    IF reqUser = NoClaims
    THEN [next |-> FALSE, status |-> 401, error |-> "Authentication required",
          required |-> "", current |-> ""]
    ELSE IF reqUser.role # requiredRole
    THEN [next |-> FALSE, status |-> 403, error |-> "Insufficient permissions",
          required |-> requiredRole, current |-> reqUser.role]
    ELSE [next |-> TRUE, status |-> 200, error |-> "", required |-> "", current |-> ""]

(* ---------------- rate limiter on /api/auth/ ---------------- *)
\* one hit of a client on the limiter's store
limiterHit(entry, t) ==
    IF entry.hits = 0 \/ t >= entry.reset
    THEN [hits |-> 1, reset |-> t + authWindow]
    ELSE [hits |-> entry.hits + 1, reset |-> entry.reset]

\* rejecting one request later
limiterBlocks_Late(entry) == entry.hits > authMax + 1

limiterBlocks(entry) == entry.hits > authMax

\* the latest authMax + 1 entries of a history
latest(h) == IF Len(h) > authMax + 1 THEN SubSeq(h, Len(h) - authMax, Len(h)) ELSE h

\* the history after a request of ip at t that the limiter let through or not
recordAdmitted(history, ip, t, blocked) ==
    IF ip \in DOMAIN history /\ ~blocked
    THEN [history EXCEPT ![ip] = latest(Append(@, t))]
    ELSE history

(* ---------------- the browser: AuthManager (scripts/auth-manager.js) ---------------- *)
sessionTimeout == 1800
warningTime == 300
FingerprintLength == 32

\* the tabs of one browser
Tabs == 1..NumTabs

\* the instants at which something happens in the browser
ClientInstants == {t \in 0..ClientHorizon : t % warningTime = 0}

Min(a, b) == IF a <= b THEN a ELSE b

\* what generateFingerprint reads: strings are tuples of characters
UserAgent == <<"M","o","z","i","l","l","a","/","5",".","0"," ","(","X","1","1",";"," ",
               "L","i","n","u","x"," ","x","8","6","_","6","4",")">>
Laptop == [userAgent |-> UserAgent, language |-> <<"e","n">>,
           screen |-> <<"1","9","2","0","x","1","0","8","0">>,
           timezoneOffset |-> <<"0">>, canvas |-> <<"d","a","t","a",":">>]
\* the same browser on another display
Docked == [Laptop EXCEPT !.screen = <<"2","5","6","0","x","1","4","4","0">>]
Devices == {Laptop, Docked}

\* [a, b, c, d, e].join('|')
join(dev) ==
    dev.userAgent \o <<"|">> \o dev.language \o <<"|">> \o dev.screen \o <<"|">>
        \o dev.timezoneOffset \o <<"|">> \o dev.canvas

\* btoa: every 3 characters of the input give 4 characters of output; the
\* output is kept as the tuple of those groups
btoa(s) ==
    [i \in 1..((Len(s) + 2) \div 3) |-> SubSeq(s, 3 * i - 2, Min(3 * i, Len(s)))]

\* b.substring(0, n) of a base64 text: its first n \div 4 groups
substring(b, n) == SubSeq(b, 1, Min(n \div 4, Len(b)))

generateFingerprint(dev) == substring(btoa(join(dev)), FingerprintLength)

\* a fingerprint stored by something else than this browser's AuthManager
ForeignFingerprint == <<<<"f","o","r">>, <<"e","i","g">>, <<"n">>>>

\* the session record and its stored form, btoa(JSON.stringify(sessionData))
NoSession == [token |-> NoToken, username |-> "", role |-> "", loginTime |-> 0,
              expiresAt |-> 0]
NoItem == [enc |-> "", json |-> NoSession]
Encode(sessionData) == [enc |-> "base64", json |-> sessionData]
\* JSON.parse(atob(item)); NoSession stands for null
Decode(item) == IF item.enc = "base64" THEN item.json ELSE NoSession

NoStorage == [auth_session |-> NoItem, auth_fingerprint |-> <<>>]

\* getSession: NoSession stands for null
getSession(ls, dev) ==
    IF ls.auth_session = NoItem THEN NoSession
    ELSE IF ls.auth_fingerprint # generateFingerprint(dev) THEN NoSession
    ELSE Decode(ls.auth_session)

\* isSessionValid; isActive is this tab's sessionStorage entry auth_active
isSessionValid(sessionData, isActive, t) ==
    /\ sessionData # NoSession
    /\ sessionData.token # NoToken
    /\ sessionData.expiresAt # 0
    /\ ~(t > sessionData.expiresAt)
    /\ isActive

\* storeSession: what it leaves in localStorage
storeSession(sessionData, dev) ==
    [auth_session |-> Encode(sessionData), auth_fingerprint |-> generateFingerprint(dev)]

\* getTokenFromStorage of the admin page: NoToken stands for null
getTokenFromStorage(ls) ==
    IF ls.auth_session # NoItem THEN Decode(ls.auth_session).token ELSE NoToken

\* a tab: the page it shows, whether that page's AuthManager has been
\* constructed, whether checkExistingSession is waiting for the server and
\* with which token, the token of a logout request of the admin page that is
\* on its way, this tab's sessionStorage entry, its timers (the instants at
\* which they fire), and a storage event that is queued for it
NoTab == [page |-> "closed", loaded |-> FALSE, pc |-> "idle", sent |-> NoToken,
          logoutSent |-> NoToken,
          auth_active |-> FALSE, hidden |-> FALSE, currentUser |-> "",
          warningTimer |-> NULL, sessionTimer |-> NULL, storageEvent |-> FALSE]

NoEvent == [kind |-> "none", tab |-> 0, token |-> NoToken, mismatch |-> FALSE]


(* ---------------- state ---------------- *)
VARIABLES
    now,             \* the clock, in seconds
    users,           \* the users table of the credential store
    tokenBlacklist,  \* SessionManager.tokenBlacklist
    authStore,       \* the memory store of authLimiter, per client IP
    held,            \* the tokens that clients have received and kept
    res,             \* the last request and the answer it got
    admitted,        \* history: for each client under observation, the times of
                     \* its latest requests under /api/auth/ that reached a handler
    pending,         \* the login requests waiting at await bcrypt.compare
    localStorage,    \* the browser's localStorage: auth_session, auth_fingerprint
    tabs,            \* the tabs of the browser
    device,          \* what the browser reports about itself and its display
    event            \* the last thing that happened in the browser

vars == <<now, users, tokenBlacklist, authStore, held, res, admitted, pending,
          localStorage, tabs, device, event>>

clientVars == <<localStorage, tabs, device, event>>

\* no page has been opened yet
InitBrowser ==
    /\ localStorage = NoStorage
    /\ tabs = [t \in Tabs |-> NoTab]
    /\ device = Laptop
    /\ event = NoEvent

\* the login requests in flight, by slot
Slots == 1..MaxPending

NoRequest == [username |-> "", password |-> "", ip |-> 0,
              user |-> [id |-> 0, username |-> "", password_hash |-> <<>>, role |-> "",
                        login_attempts |-> 0, locked_until |-> NULL],
              overlapped |-> FALSE]

NoPending == [s \in Slots |-> NoRequest]

NoUser == [id |-> 0, username |-> "", role |-> ""]

NoRes == [op |-> "none", ip |-> 0, at |-> 0, status |-> 0, code |-> "", error |-> "",
          presented |-> NoToken, token |-> NoToken, user |-> NoUser,
          username |-> "", valid |-> FALSE, compared |-> FALSE,
          wasRevoked |-> FALSE, attemptsRead |-> NULL,
          requiredRole |-> "", required |-> "", current |-> "",
          action |-> "", body |-> <<>>, db |-> "", insert |-> "",
          nextCalls |-> 0, rows |-> {},
          attemptsStored |-> NULL, overlapped |-> FALSE,
          strict |-> "", warned |-> FALSE, dropped |-> {}, fault |-> ""]

TooMany(op, ip, t) ==
    [NoRes EXCEPT !.op = op, !.ip = ip, !.at = t, !.status = 429,
                  !.error = "Too many login attempts, please try again later."]

Init ==
    /\ now = 0
    /\ users = InitUsers
    /\ tokenBlacklist = {}
    /\ authStore = [ip \in IPs |-> [hits |-> 0, reset |-> 0]]
    /\ held = {}
    /\ res = NoRes
    /\ admitted = <<>>
    /\ pending = NoPending
    /\ InitBrowser

(* ---------------- audit logging middleware ---------------- *)
\* property names of request bodies, as the characters they are made of
K_username == <<"u", "s", "e", "r", "n", "a", "m", "e">>
K_password == <<"p", "a", "s", "s", "w", "o", "r", "d">>
K_Password == <<"P", "a", "s", "s", "w", "o", "r", "d">>
K_hcaptcha == <<"h", "-", "c", "a", "p", "t", "c", "h", "a", "-",
                "r", "e", "s", "p", "o", "n", "s", "e">>
K_resetToken == <<"r", "e", "s", "e", "t", "_", "t", "o", "k", "e", "n">>
K_proto == <<"_", "_", "p", "r", "o", "t", "o", "_", "_">>

W_password == K_password
W_token == <<"t", "o", "k", "e", "n">>
W_captcha == <<"c", "a", "p", "t", "c", "h", "a">>

BodyKeys == {K_username, K_password, K_Password, K_hcaptcha, K_resetToken, K_proto}
BodyValues == {"x", "y"}
Redacted == "***REDACTED***"

\* String.prototype.includes
includes(key, word) ==
    \E i \in 1..(Len(key) - Len(word) + 1) : SubSeq(key, i, i + Len(word) - 1) = word

sensitive(key) ==
    includes(key, W_password) \/ includes(key, W_token) \/ includes(key, W_captcha)

\* acc[key] = value on an ordinary object: the name __proto__ reaches the
\* setter of Object.prototype, which creates no own property
setProperty(acc, key, value) ==
    IF key = K_proto THEN acc
    ELSE [k \in DOMAIN acc \cup {key} |-> IF k = key THEN value ELSE acc[k]]

\* Object.keys(req.body).reduce(..., {})
RECURSIVE sanitizeBody(_, _)
sanitizeBody(body, keys) ==
    IF keys = {} THEN <<>>
    ELSE LET key == CHOOSE k \in keys : TRUE
             acc == sanitizeBody(body, keys \ {key})
         IN setProperty(acc, key, IF sensitive(key) THEN Redacted ELSE body[key])

DbStates == {"absent", "closed", "open"}
InsertOutcomes == {"ok", "throws"}

\* an audit wrapper without the try around the insert
auditLog_Propagate(action, req, db, insert) ==
    LET logData == [user_id |-> IF req.user = NoClaims THEN NULL ELSE req.user.id,
                    action |-> action,
                    details |-> [method |-> req.method, url |-> req.url,
                                 body |-> sanitizeBody(req.body, DOMAIN req.body)],
                    ip_address |-> req.ip, user_agent |-> req.ua]
    IN IF db = "open" /\ insert = "throws"
       THEN [nextCalls |-> 0, status |-> 500, rows |-> {}]
       ELSE [nextCalls |-> 1, status |-> 0,
             rows |-> IF db = "open" THEN {logData} ELSE {}]

\* auditLog(action)(req, res, next): how often it calls next, the status it
\* writes itself (0: none), and the rows it adds to audit_logs
auditLog(action, req, db, insert) ==
    LET logData == [user_id |-> IF req.user = NoClaims THEN NULL ELSE req.user.id,
                    action |-> action,
                    details |-> [method |-> req.method, url |-> req.url,
                                 body |-> sanitizeBody(req.body, DOMAIN req.body)],
                    ip_address |-> req.ip, user_agent |-> req.ua]
    IN IF db = "open"
       THEN IF insert = "ok"
            THEN [nextCalls |-> 1, status |-> 0, rows |-> {logData}]
            ELSE [nextCalls |-> 1, status |-> 0, rows |-> {}]
       ELSE [nextCalls |-> 1, status |-> 0, rows |-> {}]

(* ---------------- POST /api/auth/login ---------------- *)
UsernameInputs == {" ", "admin", "editor", "ghost"}
PasswordInputs == {"", "pwA", "pwE"}
CaptchaInputs == {"missing", "pass", "fail"}

\* body('username').trim()
Trim(s) == IF s = " " THEN "" ELSE s

\* the express-validator chain of the route
validInput(username, password) == Trim(username) # "" /\ password # ""

\* verifyCaptcha(token, clientIP).success
verifyCaptcha(captcha) == captcha = "pass"

\* a lock check that is never true
isLocked_Off(user, t) == FALSE

\* a lock that still holds at the very second it expires
isLocked_Inclusive(user, t) == user.locked_until # NULL /\ t <= user.locked_until

isLocked(user, t) == user.locked_until # NULL /\ t < user.locked_until

\* locking only once the threshold is exceeded
shouldLock_Strict(newAttempts) == newAttempts > maxLoginAttempts

shouldLock(newAttempts) == newAttempts >= maxLoginAttempts

lockUntil(newAttempts, t) == IF shouldLock(newAttempts) THEN t + lockoutDuration ELSE NULL

\* a successful login that resets the counter and leaves the lock-expiry
resetAttempts_KeepLock(table, username) ==
    [table EXCEPT ![username].login_attempts = 0]

\* UPDATE users SET login_attempts = 0, locked_until = NULL WHERE id = ?
resetAttempts(table, username) ==
    [table EXCEPT ![username].login_attempts = 0, ![username].locked_until = NULL]

\* the second half that takes the counter from the table at the time of
\* the UPDATE
finishLogin_Fresh(table, r, t) ==
    LET user == table[r.username] IN
    IF ~bcryptCompare(r.password, user.password_hash)
    THEN LET newAttempts == user.login_attempts + 1
         IN [status |-> 401, error |-> "Invalid credentials",
             users |-> [table EXCEPT ![r.username].login_attempts = newAttempts,
                                     ![r.username].locked_until = lockUntil(newAttempts, t)],
             token |-> NoToken, user |-> NoUser, compared |-> TRUE,
             attemptsRead |-> r.user.login_attempts]
    ELSE [status |-> 200, error |-> "",
          users |-> resetAttempts(table, r.username),
          token |-> generateToken(user, r.ip, "unknown", t),
          user |-> [id |-> user.id, username |-> user.username, role |-> user.role],
          compared |-> TRUE, attemptsRead |-> r.user.login_attempts]

\* the handler from the result of await bcrypt.compare on: r.user is the row
\* that the SELECT returned before the await, table the users table now
finishLogin(table, r, t) ==
    LET user == r.user IN
    IF ~bcryptCompare(r.password, user.password_hash)
    THEN LET newAttempts == user.login_attempts + 1
         IN [status |-> 401, error |-> "Invalid credentials",
             users |-> [table EXCEPT ![r.username].login_attempts = newAttempts,
                                     ![r.username].locked_until = lockUntil(newAttempts, t)],
             token |-> NoToken, user |-> NoUser, compared |-> TRUE,
             attemptsRead |-> user.login_attempts]
    ELSE [status |-> 200, error |-> "",
          users |-> resetAttempts(table, r.username),
          token |-> generateToken(user, r.ip, "unknown", t),
          user |-> [id |-> user.id, username |-> user.username, role |-> user.role],
          compared |-> TRUE, attemptsRead |-> user.login_attempts]

\* a handler that looks the user up and answers 423 for a locked account
\* before it verifies the captcha
loginHandler_LockFirst(table, usernameIn, password, captcha, ip, t) ==
    LET username == Trim(usernameIn)
        fail(status, error, read) ==
            [status |-> status, error |-> error, users |-> table,
             token |-> NoToken, user |-> NoUser, compared |-> FALSE,
             attemptsRead |-> read]
    IN
    IF ~validInput(usernameIn, password) THEN fail(400, "Invalid input", NULL)
    ELSE IF username \in DOMAIN table /\ isLocked(table[username], t)
    THEN fail(423, "Account temporarily locked due to too many failed attempts",
              table[username].login_attempts)
    ELSE IF ~verifyCaptcha(captcha)
    THEN fail(400, "Captcha verification failed. Please try again.", NULL)
    ELSE IF username \notin DOMAIN table THEN fail(401, "Invalid credentials", NULL)
    ELSE LET user == table[username] IN
    IF ~bcryptCompare(password, user.password_hash)
    THEN LET newAttempts == user.login_attempts + 1
         IN [status |-> 401, error |-> "Invalid credentials",
             users |-> [table EXCEPT ![username].login_attempts = newAttempts,
                                     ![username].locked_until = lockUntil(newAttempts, t)],
             token |-> NoToken, user |-> NoUser, compared |-> TRUE,
             attemptsRead |-> user.login_attempts]
    ELSE [status |-> 200, error |-> "",
          users |-> resetAttempts(table, username),
          token |-> generateToken(user, ip, "unknown", t),
          user |-> [id |-> user.id, username |-> user.username, role |-> user.role],
          compared |-> TRUE, attemptsRead |-> user.login_attempts]

\* a handler that tells the client when the username does not exist
loginHandler_UserNotFound(table, usernameIn, password, captcha, ip, t) ==
    LET username == Trim(usernameIn)
        fail(status, error) ==
            [status |-> status, error |-> error, users |-> table,
             token |-> NoToken, user |-> NoUser, compared |-> FALSE,
             attemptsRead |-> NULL]
    IN
    IF ~validInput(usernameIn, password) THEN fail(400, "Invalid input")
    ELSE IF ~verifyCaptcha(captcha)
    THEN fail(400, "Captcha verification failed. Please try again.")
    ELSE IF username \notin DOMAIN table THEN fail(404, "User not found")
    ELSE LET user == table[username] IN
    IF isLocked(user, t)
    THEN [fail(423, "Account temporarily locked due to too many failed attempts")
            EXCEPT !.attemptsRead = user.login_attempts]
    ELSE IF ~bcryptCompare(password, user.password_hash)
    THEN LET newAttempts == user.login_attempts + 1
         IN [status |-> 401, error |-> "Invalid credentials",
             users |-> [table EXCEPT ![username].login_attempts = newAttempts,
                                     ![username].locked_until = lockUntil(newAttempts, t)],
             token |-> NoToken, user |-> NoUser, compared |-> TRUE,
             attemptsRead |-> user.login_attempts]
    ELSE [status |-> 200, error |-> "",
          users |-> resetAttempts(table, username),
          token |-> generateToken(user, ip, "unknown", t),
          user |-> [id |-> user.id, username |-> user.username, role |-> user.role],
          compared |-> TRUE, attemptsRead |-> user.login_attempts]

\* the route handler: the answer, the users table it leaves, the token it
\* issues, whether it called bcrypt.compare, and the login_attempts it read
loginHandler(table, usernameIn, password, captcha, ip, t) ==
    LET username == Trim(usernameIn)
        fail(status, error) ==
            [status |-> status, error |-> error, users |-> table,
             token |-> NoToken, user |-> NoUser, compared |-> FALSE,
             attemptsRead |-> NULL]
    IN
    IF ~validInput(usernameIn, password) THEN fail(400, "Invalid input")
    ELSE IF ~verifyCaptcha(captcha)
    THEN fail(400, "Captcha verification failed. Please try again.")
    ELSE IF username \notin DOMAIN table THEN fail(401, "Invalid credentials")
    ELSE LET user == table[username] IN
    IF isLocked(user, t)
    THEN [fail(423, "Account temporarily locked due to too many failed attempts")
            EXCEPT !.attemptsRead = user.login_attempts]
    ELSE IF ~bcryptCompare(password, user.password_hash)
    THEN LET newAttempts == user.login_attempts + 1
         IN [status |-> 401, error |-> "Invalid credentials",
             users |-> [table EXCEPT ![username].login_attempts = newAttempts,
                                     ![username].locked_until = lockUntil(newAttempts, t)],
             token |-> NoToken, user |-> NoUser, compared |-> TRUE,
             attemptsRead |-> user.login_attempts]
    ELSE [status |-> 200, error |-> "",
          users |-> resetAttempts(table, username),
          token |-> generateToken(user, ip, "unknown", t),
          user |-> [id |-> user.id, username |-> user.username, role |-> user.role],
          compared |-> TRUE, attemptsRead |-> user.login_attempts]

Login(ip, usernameIn, password, captcha) ==
    LET entry == limiterHit(authStore[ip], now)
        out == loginHandler(users, usernameIn, password, captcha, ip, now)
    IN
    /\ authStore[ip].hits <= authMax \/ now >= authStore[ip].reset
    /\ authStore' = [authStore EXCEPT ![ip] = entry]
    /\ IF limiterBlocks(entry)
       THEN /\ res' = [TooMany("login", ip, now) EXCEPT
                               !.username = Trim(usernameIn),
                               !.valid = validInput(usernameIn, password)
                                           /\ verifyCaptcha(captcha)]
            /\ UNCHANGED users
       ELSE /\ users' = out.users
            /\ res' = [NoRes EXCEPT !.op = "login", !.ip = ip, !.at = now,
                                    !.status = out.status, !.error = out.error,
                                    !.token = out.token, !.user = out.user,
                                    !.username = Trim(usernameIn),
                                    !.valid = validInput(usernameIn, password)
                                                /\ verifyCaptcha(captcha),
                                    !.compared = out.compared,
                                    !.attemptsRead = out.attemptsRead]
    /\ UNCHANGED <<now, tokenBlacklist, held, pending>>
    /\ admitted' = recordAdmitted(admitted, ip, now, limiterBlocks(entry))
    /\ UNCHANGED clientVars

\* POST /api/auth/login up to await bcrypt.compare: a request that gets
\* that far waits in a free slot with the row it has read
LoginBegin(ip, usernameIn, password, captcha) ==
    LET entry == limiterHit(authStore[ip], now)
        out == loginHandler(users, usernameIn, password, captcha, ip, now)
        username == Trim(usernameIn)
        free == {s \in Slots : pending[s] = NoRequest}
        slot == CHOOSE s \in free : \A o \in free : s <= o
        sameUser == {s \in Slots : pending[s] # NoRequest /\ pending[s].username = username}
    IN
    /\ authStore[ip].hits <= authMax \/ now >= authStore[ip].reset
    /\ free # {}
    /\ authStore' = [authStore EXCEPT ![ip] = entry]
    /\ admitted' = recordAdmitted(admitted, ip, now, limiterBlocks(entry))
    /\ IF limiterBlocks(entry)
       THEN /\ res' = [TooMany("login", ip, now) EXCEPT
                               !.username = username,
                               !.valid = validInput(usernameIn, password)
                                           /\ verifyCaptcha(captcha)]
            /\ UNCHANGED pending
       ELSE IF ~out.compared
       THEN /\ res' = [NoRes EXCEPT !.op = "login", !.ip = ip, !.at = now,
                                    !.status = out.status, !.error = out.error,
                                    !.username = username,
                                    !.valid = validInput(usernameIn, password)
                                                /\ verifyCaptcha(captcha),
                                    !.attemptsRead = out.attemptsRead]
            /\ UNCHANGED pending
       ELSE /\ res' = NoRes
            /\ pending' = [s \in Slots |->
                              IF s = slot
                              THEN [username |-> username, password |-> password,
                                    ip |-> ip, user |-> users[username],
                                    overlapped |-> sameUser # {}]
                              ELSE IF s \in sameUser
                              THEN [pending[s] EXCEPT !.overlapped = TRUE]
                              ELSE pending[s]]
    /\ UNCHANGED <<now, users, tokenBlacklist, held>>
    /\ UNCHANGED clientVars

\* bcrypt.compare resolves: the rest of the handler of the request in slot
LoginFinish(slot) ==
    LET r == pending[slot]
        out == finishLogin(users, r, now)
    IN
    /\ r # NoRequest
    /\ users' = out.users
    /\ pending' = [pending EXCEPT ![slot] = NoRequest]
    /\ res' = [NoRes EXCEPT !.op = "login", !.ip = r.ip, !.at = now,
                            !.status = out.status, !.error = out.error,
                            !.token = out.token, !.user = out.user,
                            !.username = r.username, !.valid = TRUE,
                            !.compared = out.compared,
                            !.attemptsRead = out.attemptsRead,
                            !.attemptsStored = users[r.username].login_attempts,
                            !.overlapped = r.overlapped]
    /\ UNCHANGED <<now, tokenBlacklist, authStore, held, admitted>>
    /\ UNCHANGED clientVars

(* ---------------- requests that carry a token ---------------- *)
\* what a client can do to a token it holds
Tampered(tok) ==
    { [tok EXCEPT !.claims.role = "admin"],
      [tok EXCEPT !.claims.username = "admin", !.claims.id = 1],
      [tok EXCEPT !.claims.exp = tok.claims.exp + tokenLifetime],
      jwtSign(tok.claims, "attacker-secret") } \ {tok}

Presentable == held \cup UNION {Tampered(tok) : tok \in held} \cup {Garbage}

AuthHeaders ==
    {<<>>, <<"Bearer">>} \cup {<<"Bearer", tok>> : tok \in Presentable}

Answer(op, ip, authHeader, a) ==
    [NoRes EXCEPT !.op = op, !.ip = ip, !.at = now, !.status = a.status,
                  !.code = a.code, !.error = a.error,
                  !.presented = ExtractToken(authHeader), !.token = a.token,
                  !.wasRevoked = ExtractToken(authHeader) \in tokenBlacklist,
                  !.user = [id |-> a.user.id, username |-> a.user.username,
                            role |-> a.user.role]]

\* POST /api/auth/logout
Logout(ip, authHeader) ==
    LET entry == limiterHit(authStore[ip], now)
        a == authenticate(authHeader, tokenBlacklist, now)
    IN
    /\ authStore[ip].hits <= authMax \/ now >= authStore[ip].reset
    /\ authStore' = [authStore EXCEPT ![ip] = entry]
    /\ IF limiterBlocks(entry)
       THEN /\ res' = [TooMany("logout", ip, now) EXCEPT
                               !.presented = ExtractToken(authHeader),
                               !.wasRevoked = ExtractToken(authHeader) \in tokenBlacklist]
            /\ UNCHANGED tokenBlacklist
       ELSE /\ res' = Answer("logout", ip, authHeader, a)
            /\ tokenBlacklist' = IF a.next /\ a.token # NoToken
                                 THEN revokeToken(tokenBlacklist, a.token)
                                 ELSE tokenBlacklist
    /\ UNCHANGED <<now, users, held, pending>>
    /\ admitted' = recordAdmitted(admitted, ip, now, limiterBlocks(entry))
    /\ UNCHANGED clientVars

\* GET /api/auth/verify
Verify(ip, authHeader) ==
    LET entry == limiterHit(authStore[ip], now)
        a == authenticate(authHeader, tokenBlacklist, now)
    IN
    /\ authStore[ip].hits <= authMax \/ now >= authStore[ip].reset
    /\ authStore' = [authStore EXCEPT ![ip] = entry]
    /\ res' = IF limiterBlocks(entry)
              THEN [TooMany("verify", ip, now) EXCEPT
                        !.presented = ExtractToken(authHeader),
                        !.wasRevoked = ExtractToken(authHeader) \in tokenBlacklist]
              ELSE Answer("verify", ip, authHeader, a)
    /\ UNCHANGED <<now, users, tokenBlacklist, held, pending>>
    /\ admitted' = recordAdmitted(admitted, ip, now, limiterBlocks(entry))
    /\ UNCHANGED clientVars

\* GET /api/admin/blogs and the other /api/admin/ endpoints
Admin(ip, authHeader) ==
    LET a == authenticate(authHeader, tokenBlacklist, now) IN
    /\ res' = Answer("admin", ip, authHeader, a)
    /\ UNCHANGED <<now, users, tokenBlacklist, authStore, held, admitted, pending>>
    /\ UNCHANGED clientVars

\* POST /api/auth/logout with its audit step: authenticateToken,
\* auditLog('LOGOUT'), handler; db is the state of the database handle and
\* insert what the INSERT into audit_logs does
AuditedLogout(ip, authHeader, body, db, insert) ==
    LET entry == limiterHit(authStore[ip], now)
        a == authenticate(authHeader, tokenBlacklist, now)
        w == auditLog("LOGOUT",
                      [user |-> a.user, method |-> "POST", url |-> "/api/auth/logout",
                       body |-> body, ip |-> ip, ua |-> "unknown"],
                      db, insert)
    IN
    /\ authStore[ip].hits <= authMax \/ now >= authStore[ip].reset
    /\ authStore' = [authStore EXCEPT ![ip] = entry]
    /\ admitted' = recordAdmitted(admitted, ip, now, limiterBlocks(entry))
    /\ IF limiterBlocks(entry)
       THEN /\ res' = [TooMany("logout", ip, now) EXCEPT
                               !.presented = ExtractToken(authHeader),
                               !.wasRevoked = ExtractToken(authHeader) \in tokenBlacklist]
            /\ UNCHANGED tokenBlacklist
       ELSE IF ~a.next
       THEN /\ res' = Answer("logout", ip, authHeader, a)
            /\ UNCHANGED tokenBlacklist
       ELSE IF w.nextCalls = 0
       THEN /\ res' = [NoRes EXCEPT !.op = "logout", !.ip = ip, !.at = now,
                                    !.status = w.status,
                                    !.presented = ExtractToken(authHeader),
                                    !.action = "LOGOUT", !.body = body,
                                    !.db = db, !.insert = insert]
            /\ UNCHANGED tokenBlacklist
       ELSE /\ res' = [Answer("logout", ip, authHeader, a) EXCEPT
                               !.action = "LOGOUT", !.body = body,
                               !.db = db, !.insert = insert,
                               !.nextCalls = w.nextCalls, !.rows = w.rows]
            /\ tokenBlacklist' = IF a.token # NoToken
                                 THEN revokeToken(tokenBlacklist, a.token)
                                 ELSE tokenBlacklist
    /\ UNCHANGED <<now, users, held, pending>>
    /\ UNCHANGED clientVars

(* ---------------- environment ---------------- *)
\* a client stores the token of the answer it has just received
Keep(limit) ==
    /\ res.op \in {"login", "generateToken"} /\ res.status = 200
    /\ res.token \notin held
    /\ Cardinality(held) < limit
    /\ held' = held \cup {res.token}
    /\ UNCHANGED <<now, users, tokenBlacklist, authStore, res, admitted, pending>>
    /\ UNCHANGED clientVars

\* time passes; the last answer has been delivered by then
Tick(horizon) ==
    /\ \E t \in Instants : t > now /\ t <= horizon /\ now' = t
    /\ res' = NoRes
    /\ UNCHANGED <<users, tokenBlacklist, authStore, held, admitted, pending>>
    /\ UNCHANGED clientVars

\* a SessionManager that finds the registry of the process before it
constructor_Persistent(blacklist) == blacklist

\* new SessionManager(config): this.tokenBlacklist = new Set()
constructor(blacklist) == {}

\* the process stops and starts again: memory is lost, the database is not
Restart ==
    /\ tokenBlacklist' = constructor(tokenBlacklist)
    /\ authStore' = [ip \in IPs |-> [hits |-> 0, reset |-> 0]]
    /\ res' = [NoRes EXCEPT !.op = "restart", !.dropped = tokenBlacklist]
    /\ UNCHANGED <<now, users, held, admitted>>
    /\ pending' = NoPending
    /\ UNCHANGED clientVars

(* ---------------- direct calls of the SessionManager methods ---------------- *)
CallGenerate(u, ip) ==
    LET tok == generateToken(users[u], ip, "unknown", now) IN
    /\ res' = [NoRes EXCEPT !.op = "generateToken", !.ip = ip, !.at = now,
                            !.status = 200, !.token = tok, !.username = u]
    /\ UNCHANGED <<now, users, tokenBlacklist, authStore, held, admitted, pending>>
    /\ UNCHANGED clientVars

CallVerify(tok) ==
    LET v == verifyToken(tok, tokenBlacklist, now) IN
    /\ res' = [NoRes EXCEPT !.op = "verifyToken", !.at = now, !.presented = tok,
                            !.wasRevoked = tok \in tokenBlacklist,
                            !.status = IF v.ok THEN 200 ELSE 403, !.error = v.error,
                            !.user = [id |-> v.decoded.id, username |-> v.decoded.username,
                                      role |-> v.decoded.role]]
    /\ UNCHANGED <<now, users, tokenBlacklist, authStore, held, admitted, pending>>
    /\ UNCHANGED clientVars

CallRevoke(tok) ==
    /\ tokenBlacklist' = revokeToken(tokenBlacklist, tok)
    /\ res' = [NoRes EXCEPT !.op = "revokeToken", !.at = now, !.presented = tok,
                            !.wasRevoked = tok \in tokenBlacklist]
    /\ UNCHANGED <<now, users, authStore, held, admitted, pending>>
    /\ UNCHANGED clientVars

CallCleanup ==
    /\ tokenBlacklist' = cleanupBlacklist(tokenBlacklist)
    /\ res' = [NoRes EXCEPT !.op = "cleanupBlacklist", !.at = now]
    /\ UNCHANGED <<now, users, authStore, held, admitted, pending>>
    /\ UNCHANGED clientVars

\* sessionManager.requireRole(requiredRole) run on a request with req.user
CallRequireRole(requiredRole, reqUser) ==
    LET a == requireRole(requiredRole, reqUser) IN
    /\ res' = [NoRes EXCEPT !.op = "requireRole", !.at = now,
                            !.requiredRole = requiredRole,
                            !.user = [id |-> reqUser.id, username |-> reqUser.username,
                                      role |-> reqUser.role],
                            !.status = a.status, !.error = a.error,
                            !.required = a.required, !.current = a.current]
    /\ UNCHANGED <<now, users, tokenBlacklist, authStore, held, admitted, pending>>
    /\ UNCHANGED clientVars

\* auditLog(action) run on a request
CallAuditLog(action, reqUser, body, db, insert) ==
    LET w == auditLog(action,
                      [user |-> reqUser, method |-> "POST", url |-> "/api/admin/blogs",
                       body |-> body, ip |-> 1, ua |-> "unknown"],
                      db, insert)
    IN
    /\ res' = [NoRes EXCEPT !.op = "auditLog", !.at = now, !.action = action,
                            !.user = [id |-> reqUser.id, username |-> reqUser.username,
                                      role |-> reqUser.role],
                            !.body = body, !.db = db, !.insert = insert,
                            !.status = w.status,
                            !.nextCalls = w.nextCalls, !.rows = w.rows]
    /\ UNCHANGED <<now, users, tokenBlacklist, authStore, held, admitted, pending>>
    /\ UNCHANGED clientVars

(* ---------------- specifications ---------------- *)
\* the login endpoint under every input
LoginNext ==
    \/ \E ip \in IPs, u \in UsernameInputs, p \in PasswordInputs, c \in CaptchaInputs :
          Login(ip, u, p, c)
    \/ Tick(LoginHorizon)
    \/ Restart

SpecLogin == Init /\ [][LoginNext]_vars

\* clients that log in with their own password and then use their tokens
Password(u) == IF u = "admin" THEN "pwA" ELSE "pwE"

SessionNext ==
    \/ \E ip \in IPs, u \in Usernames : Login(ip, u, Password(u), "pass")
    \/ Keep(MaxHeld)
    \/ \E ip \in IPs, h \in AuthHeaders : Logout(ip, h)
    \/ \E ip \in IPs, h \in AuthHeaders : Verify(ip, h)
    \/ \E ip \in IPs, h \in AuthHeaders : Admin(ip, h)
    \/ Tick(MaxTime)
    \/ Restart

SpecSession == Init /\ [][SessionNext]_vars

\* the server after 1000 logouts: the registry holds 1000 revoked tokens of
\* other clients, and one client still has the first of them
FillerToken(n) == generateToken(InitUsers["admin"], 1000 + n, "unknown", 0)

EarlyToken == FillerToken(1)

InitOverflow ==
    /\ now = 0
    /\ users = InitUsers
    /\ tokenBlacklist = {FillerToken(n) : n \in 1..blacklistLimit}
    /\ authStore = [ip \in IPs |-> [hits |-> 0, reset |-> 0]]
    /\ held = {EarlyToken}
    /\ res = NoRes
    /\ admitted = <<>>
    /\ pending = NoPending
    /\ InitBrowser

OverflowNext ==
    \/ \E ip \in IPs, u \in Usernames : Login(ip, u, Password(u), "pass")
    \/ Keep(MaxHeld + 1)
    \/ \E ip \in IPs, h \in AuthHeaders : Logout(ip, h)
    \/ \E ip \in IPs, h \in AuthHeaders : Verify(ip, h)
    \/ \E ip \in IPs, h \in AuthHeaders : Admin(ip, h)
    \/ Tick(OverflowHorizon)
    \/ Restart

SpecOverflow == InitOverflow /\ [][OverflowNext]_vars

\* the limiter of /api/auth/ with the history of every client kept
InitLimiter ==
    /\ now = 0
    /\ users = InitUsers
    /\ tokenBlacklist = {}
    /\ authStore = [ip \in IPs |-> [hits |-> 0, reset |-> 0]]
    /\ held = {}
    /\ res = NoRes
    /\ admitted = [ip \in IPs |-> <<>>]
    /\ pending = NoPending
    /\ InitBrowser

LimiterNext ==
    \/ \E ip \in IPs, p \in {"pwA", "pwE"} : Login(ip, "admin", p, "pass")
    \/ Keep(MaxHeld)
    \/ \E ip \in IPs, h \in AuthHeaders : Logout(ip, h)
    \/ \E ip \in IPs, h \in AuthHeaders : Verify(ip, h)
    \/ Tick(LimiterHorizon)
    \/ Restart

SpecLimiter == InitLimiter /\ [][LimiterNext]_vars

\* requests that pass the audit middleware, under every outcome of its insert
LogoutBodies == {<<>>, [k \in {K_username, K_resetToken} |-> "x"]}

AuditActions == {"LOGIN_ATTEMPT", "CREATE_BLOG"}

AuditNext ==
    \/ \E ip \in IPs : Login(ip, "admin", "pwA", "pass")
    \/ Keep(MaxHeld)
    \/ \E ip \in IPs, h \in AuthHeaders, b \in LogoutBodies,
          db \in DbStates, i \in InsertOutcomes : AuditedLogout(ip, h, b, db, i)
    \/ \E action \in AuditActions, tok \in held \cup {NoToken}, b \in LogoutBodies,
          db \in DbStates, i \in InsertOutcomes :
          CallAuditLog(action, tok.claims, b, db, i)

SpecAudit == Init /\ [][AuditNext]_vars

\* the audit middleware on every request body
Bodies == UNION {[keys -> BodyValues] : keys \in SUBSET BodyKeys}

RedactNext == \E b \in Bodies : CallAuditLog("CREATE_BLOG", NoClaims, b, "open", "ok")

SpecRedact == Init /\ [][RedactNext]_vars

\* login requests that overlap at await bcrypt.compare
RaceNext ==
    \/ \E ip \in IPs, u \in Usernames, p \in {"pwA", "pwE"} : LoginBegin(ip, u, p, "pass")
    \/ \E slot \in Slots : LoginFinish(slot)
    \/ Tick(OverflowHorizon)
    \/ Restart

SpecRace == Init /\ [][RaceNext]_vars

\* the SessionManager object on its own
ManagerNext ==
    \/ \E u \in Usernames, ip \in IPs : CallGenerate(u, ip)
    \/ Keep(MaxHeld)
    \/ \E tok \in Presentable : CallVerify(tok)
    \/ \E tok \in Presentable : CallRevoke(tok)
    \/ CallCleanup
    \/ \E r \in RequiredRoles, tok \in held \cup {NoToken} : CallRequireRole(r, tok.claims)
    \/ Tick(MaxTime)

SpecManager == Init /\ [][ManagerNext]_vars

(* ======================================================================= *)
(* Properties                                                              *)
(* ======================================================================= *)
\* the reasons a presented token can be invalid, stated on the token itself
BadSignature(tok) == tok.parts # 3 \/ tok.sig # [key |-> jwtSecret, of |-> tok.claims]

Expired(tok, t) == t >= tok.claims.exp

\* the last request went through the Authenticate interceptor
Authenticated == res.op \in {"logout", "verify", "admin"} /\ res.status # 429

(* ---------------- C1 ---------------- *)
C1_Rejected ==
    /\ (Authenticated /\ res.wasRevoked)
          => (res.status = 403 /\ res.code = "INVALID_TOKEN")
    /\ (res.op = "logout" /\ res.status = 200) => res.presented \in tokenBlacklist

C1_Kept == \A t \in tokenBlacklist : t \in tokenBlacklist' \/ Restart

\* C1: once POST /api/auth/logout has succeeded with token t, t is in the
\* revocation registry; every later request carrying t that reaches the
\* Authenticate interceptor (GET /api/auth/verify, an admin endpoint, or
\* logout again) is answered 403 INVALID_TOKEN; and no step other than a
\* restart of the process takes a token out of the registry.
C1_RevokedStaysRejected == [](C1_Rejected) /\ [][C1_Kept]_vars

\* a token that a client holds, was revoked and has not expired is refused
C1_Witness ==
    /\ res.op = "verify" /\ res.status = 403 /\ res.wasRevoked
    /\ res.presented \in held
    /\ ~Expired(res.presented, res.at)

(* ---------------- C2 ---------------- *)
\* the step is a request to POST /api/auth/login (each one hits the limiter)
LoginStep == res'.op = "login" /\ authStore' # authStore

C2_Unlocked ==
    \A u \in Usernames : users[u].login_attempts < 5 => users[u].locked_until = NULL

C2_Failure ==
    (LoginStep /\ res'.compared /\ res'.status = 401) =>
        LET before == users[res'.username]
            after == users'[res'.username]
        IN /\ after.login_attempts = before.login_attempts + 1
           /\ after.login_attempts < 5 => after.locked_until = NULL
           /\ after.login_attempts = 5 => after.locked_until = now + 900

LockedNow(u) == users[u].locked_until # NULL /\ now < users[u].locked_until

\* a well-formed login request (valid input, captcha passed) for an existing
\* user whose lock-expiry is in the future
LockedLoginStep ==
    /\ LoginStep /\ res'.valid
    /\ res'.username \in Usernames
    /\ LockedNow(res'.username)

\* C3 as claimed: a login attempt for a user whose lock-expiry is in the
\* future is answered 423, without a password comparison and without a
\* change to the user records.
C3_LockedAnswered423 ==
    [][LockedLoginStep => (res'.status = 423 /\ ~res'.compared /\ users' = users)]_vars

C3_Answer ==
    LockedLoginStep =>
        /\ ~res'.compared
        /\ users' = users
        /\ IF authStore[res'.ip].hits >= 5 /\ now < authStore[res'.ip].reset
           THEN res'.status = 429
           ELSE res'.status = 423

\* C3 amended: a well-formed login attempt for a user whose lock-expiry is in
\* the future performs no password comparison and changes no user record; it
\* is answered 423 if the rate limiter of /api/auth/ admits it, and 429 if
\* the client's IP has already made 5 requests in the limiter's current
\* 15-minute window (as the 6th consecutive attempt from one IP has).
C3_LockedNoComparison == [][C3_Answer]_vars

\* a locked account with 5 failures is answered 423
C3_Witness ==
    /\ res.op = "login" /\ res.status = 423 /\ res.username = "admin"
    /\ users["admin"].login_attempts = 5

(* ---------------- C4 ---------------- *)
C4_Decision ==
    (LoginStep /\ res'.valid /\ res'.username \in Usernames /\ res'.status # 429) =>
        LET expiry == users[res'.username].locked_until IN
        /\ (expiry # NULL /\ now < expiry) => (res'.status = 423 /\ ~res'.compared)
        /\ (expiry = NULL \/ now >= expiry) => res'.compared

\* C4: a login attempt that reaches the lock check (admitted by the limiter,
\* well formed, for an existing user) is answered 423 without a comparison
\* when now < the stored lock-expiry, and goes on to the password comparison
\* when there is no lock-expiry or now >= lock-expiry; a restart of the
\* process leaves the user records as they are, and nothing but a login
\* request ever writes them (no unlock job).
C4_LockFromStoredExpiry ==
    [][C4_Decision /\ (Restart => users' = users) /\ (users' # users => LoginStep)]_vars

\* 423 for the first request after a restart: the limiter's window cannot
\* have run out yet, and its count is back at 1
C4_Witness ==
    /\ res.op = "login" /\ res.status = 423
    /\ authStore[res.ip].hits = 1 /\ now < authWindow

(* ---------------- C5 ---------------- *)
\* C5: a token issued at T has expiry T + 30 min for good; verified at
\* T + 30 min - 1 s it succeeds unless revoked, and verified at T + 30 min + 1 s
\* or later it fails whatever the registry holds, however often it was
\* verified before.
C5_ExpiryBoundary ==
    /\ \A tok \in held : tok.claims.exp = tok.claims.iat + 1800
    /\ (res.op = "verifyToken" /\ res.presented \in held) =>
          /\ (res.at = res.presented.claims.iat + 1799 /\ ~res.wasRevoked)
                => res.status = 200
          /\ res.at >= res.presented.claims.iat + 1801 => res.status # 200

\* an unrevoked token fails one second after its thirty minutes
C5_Witness ==
    /\ res.op = "verifyToken" /\ res.presented \in held
    /\ res.at = res.presented.claims.iat + 1801
    /\ ~res.wasRevoked /\ res.status # 200

(* ---------------- C6 ---------------- *)
\* C6: the registry never holds more than 1000 tokens, because the logout
\* that takes it to 1001 empties it; from then on the tokens revoked before
\* pass Verify again while they are within their lifetime.
C6_OverflowEmptiesRegistry ==
    /\ Cardinality(tokenBlacklist) <= 1000
    /\ (res.op = "verify" /\ res.status = 403 /\ res.presented = EarlyToken
          /\ ~Expired(EarlyToken, res.at))
          => \A tok \in held \ {EarlyToken} : tok \notin tokenBlacklist

(* ---------------- C7 ---------------- *)
C7_StillRevoked ==
    /\ res.op = "revokeToken" =>
          /\ res.presented \in tokenBlacklist
          /\ ~verifyToken(res.presented, tokenBlacklist, now).ok
    /\ (res.op = "verifyToken" /\ res.wasRevoked) => res.status # 200

\* C7: revokeToken(t) for a token already in the registry leaves the
\* registry as it was, and Verify(t) fails afterwards as it did before.
C7_IdempotentRevoke ==
    /\ [](C7_StillRevoked)
    /\ [][(res'.op = "revokeToken" /\ res'.wasRevoked)
            => tokenBlacklist' = tokenBlacklist]_vars

\* a token of a client, unexpired, revoked once more
C7_Witness ==
    /\ res.op = "revokeToken" /\ res.wasRevoked
    /\ res.presented \in held /\ ~Expired(res.presented, res.at)

(* ---------------- C8 ---------------- *)
\* the tokens that generateToken can have produced
Genuine(tok) ==
    \E u \in Usernames, ip \in IPs, t \in Instants :
        t <= now /\ tok = generateToken(InitUsers[u], ip, "unknown", t)

ClaimsOf(u) == [id |-> users[u].id, username |-> users[u].username, role |-> users[u].role]

\* C8: Verify of a freshly issued, unrevoked token returns the id, username
\* and role of the user it was issued for; whenever Verify succeeds, the
\* token is one that was issued and the claims returned are those of its
\* user; every other token (tampered payload, foreign signature, no JWT)
\* fails Verify.
C8_RoundTrip ==
    /\ (res.op = "generateToken" /\ res.token \notin tokenBlacklist) =>
          LET v == verifyToken(res.token, tokenBlacklist, now) IN
          /\ v.ok
          /\ [id |-> v.decoded.id, username |-> v.decoded.username,
              role |-> v.decoded.role] = ClaimsOf(res.username)
    /\ (res.op = "verifyToken" /\ res.presented \in held
          /\ ~Expired(res.presented, res.at) /\ ~res.wasRevoked)
          => res.status = 200
    /\ (res.op = "verifyToken" /\ res.status = 200) =>
          /\ Genuine(res.presented)
          /\ \E u \in Usernames :
                /\ res.user = ClaimsOf(u)
                /\ res.presented = generateToken(users[u], res.presented.claims.ip,
                                                 "unknown", res.presented.claims.iat)
    /\ (res.op = "verifyToken" /\ ~Genuine(res.presented)) => res.status # 200

\* the editor's token verifies and gives the editor's claims
C8_Witness ==
    /\ res.op = "verifyToken" /\ res.status = 200
    /\ res.user = [id |-> 2, username |-> "editor", role |-> "editor"]

(* ---------------- C9 ---------------- *)
\* C9: the Authenticate interceptor answers 401 NO_TOKEN exactly when no
\* token can be extracted from the Authorization header; it answers 403
\* INVALID_TOKEN for every presented token with a bad signature, past its
\* expiry or revoked; and only a token with none of these defects gets its
\* claims and the raw token attached and the next handler called.
C9_Authenticate ==
    Authenticated =>
        /\ (res.status = 401 /\ res.code = "NO_TOKEN") <=> (res.presented = NoToken)
        /\ (res.presented # NoToken
              /\ (BadSignature(res.presented) \/ Expired(res.presented, res.at)
                    \/ res.wasRevoked))
              => (res.status = 403 /\ res.code = "INVALID_TOKEN")
        /\ (res.status = 200 \/ res.token # NoToken \/ res.user # NoUser)
              => /\ res.status = 200
                 /\ res.presented # NoToken
                 /\ ~BadSignature(res.presented)
                 /\ ~Expired(res.presented, res.at)
                 /\ ~res.wasRevoked
                 /\ res.token = res.presented
                 /\ res.user = [id |-> res.presented.claims.id,
                                username |-> res.presented.claims.username,
                                role |-> res.presented.claims.role]

\* an expired token of a client is answered 403 INVALID_TOKEN
C9_Witness ==
    /\ Authenticated /\ res.status = 403 /\ res.code = "INVALID_TOKEN"
    /\ res.presented \in held /\ ~res.wasRevoked
    /\ Expired(res.presented, res.at)

(* ---------------- C10 ---------------- *)
\* C10 as claimed: logout answers 401 for a missing token and for an
\* invalid one, and 200 only for a token that passes Verify.
C10_LogoutAnswers401 ==
    (res.op = "logout" /\ res.status # 429) =>
        /\ res.presented = NoToken => res.status = 401
        /\ (res.presented # NoToken
              /\ (BadSignature(res.presented) \/ Expired(res.presented, res.at)
                    \/ res.wasRevoked))
              => res.status = 401
        /\ res.status = 200
              => (~BadSignature(res.presented) /\ ~Expired(res.presented, res.at)
                    /\ ~res.wasRevoked)

\* C10 amended: logout answers 401 (NO_TOKEN) only for a missing token; a
\* presented token that is invalid (bad signature, expired or already
\* revoked) is answered 403 (INVALID_TOKEN); 200 only for a token that
\* passes Verify.
C10_LogoutStatus ==
    (res.op = "logout" /\ res.status # 429) =>
        /\ (res.status = 401) <=> (res.presented = NoToken)
        /\ (res.presented # NoToken
              /\ (BadSignature(res.presented) \/ Expired(res.presented, res.at)
                    \/ res.wasRevoked))
              => (res.status = 403 /\ res.code = "INVALID_TOKEN")
        /\ res.status = 200
              => (~BadSignature(res.presented) /\ ~Expired(res.presented, res.at)
                    /\ ~res.wasRevoked)

\* a second logout with the token that the first logout revoked
C10_Witness ==
    /\ res.op = "logout" /\ res.status = 403
    /\ res.presented \in held /\ res.wasRevoked

C12_Authorize ==
    res.op = "requireRole" =>
        /\ (res.status = 200) <=> (res.user # NoUser /\ res.user.role = res.requiredRole)
        /\ res.user = NoUser => res.status = 401
        /\ (res.user # NoUser /\ res.user.role # res.requiredRole)
              => /\ res.status = 403
                 /\ res.required = res.requiredRole
                 /\ res.current = res.user.role

\* the editor's identity against the admin requirement
C12_Witness ==
    /\ res.op = "requireRole" /\ res.status = 403
    /\ res.required = "admin" /\ res.current = "editor"

(* ---------------- C13 ---------------- *)
C13_Success ==
    (LoginStep /\ res'.compared /\ res'.status = 200) =>
        LET u == res'.username IN
        /\ users'[u].login_attempts = 0
        /\ users'[u].locked_until = NULL
        /\ users' = [users EXCEPT ![u].login_attempts = 0, ![u].locked_until = NULL]
        /\ \A v \in Usernames \ {u} : users'[v] = users[v]
        /\ res'.token = generateToken(users[u], res'.ip, "unknown", now)
        /\ res'.user = ClaimsOf(u)

AuthStep == res'.op \in {"login", "logout", "verify"} /\ authStore' # authStore

\* no six requests of one client reached a handler less than 15 minutes apart
C14_WithinAnyWindow ==
    \A ip \in DOMAIN admitted :
        LET h == admitted[ip] IN
        Len(h) > 5 => h[Len(h)] - h[Len(h) - 5] >= 900

\* a request that the limiter rejects does nothing else
C14_Rejected ==
    (AuthStep /\ res'.status = 429) =>
        /\ users' = users
        /\ tokenBlacklist' = tokenBlacklist
        /\ admitted' = admitted
        /\ ~res'.compared
        /\ res'.token = NoToken
        /\ res'.user = NoUser

\* C14 as claimed: from one client IP at most 5 requests under /api/auth/
\* reach their handlers within any 15-minute window, and every further one
\* is rejected before any comparison, verification, revocation or write.
C14_FivePerAnyWindow == [](C14_WithinAnyWindow) /\ [][C14_Rejected]_vars

\* the requests counted in the limiter's current window are the client's
\* latest ones, all inside that window
C14_InWindow ==
    \A ip \in DOMAIN admitted :
        LET e == authStore[ip]
            h == admitted[ip]
            k == IF e.hits > 5 THEN 5 ELSE e.hits
        IN /\ Len(h) >= k
           /\ \A i \in (Len(h) - k + 1)..Len(h) : h[i] >= e.reset - 900 /\ h[i] < e.reset

\* a window starts with the first request counted and lasts 15 minutes; the
\* request is rejected exactly when 5 were counted in the running window
C14_Admission ==
    AuthStep =>
        LET e == authStore[res'.ip]
            running == e.hits > 0 /\ now < e.reset
        IN /\ authStore'[res'.ip] = IF running
                                    THEN [hits |-> e.hits + 1, reset |-> e.reset]
                                    ELSE [hits |-> 1, reset |-> now + 900]
           /\ (res'.status = 429) <=> (running /\ e.hits >= 5)

\* C14 amended: the limiter counts a client's requests under /api/auth/
\* (login, logout and verify together) in windows of 15 minutes that start
\* with the first request counted; at most 5 requests of one window reach
\* their handlers, and every further request of that window is answered 429
\* before any comparison, verification, revocation or write. The count is
\* lost when the window ends and when the process restarts, so more than 5
\* requests can reach handlers within 15 minutes.
C14_FivePerLimiterWindow ==
    [](C14_InWindow) /\ [][C14_Admission /\ C14_Rejected]_vars

\* six requests got through within 15 minutes and the next one is rejected
C14_Witness ==
    /\ res.op = "login" /\ res.status = 429
    /\ Len(admitted[res.ip]) = 6
    /\ admitted[res.ip][6] - admitted[res.ip][1] < 900

(* ---------------- C15 ---------------- *)
C15_Refused ==
    (LoginStep /\ ~res'.valid /\ res'.status # 429) =>
        /\ res'.status = 400
        /\ ~res'.compared
        /\ res'.attemptsRead = NULL
        /\ users' = users

\* C15: a login request with invalid input or a failed captcha that reaches
\* the handler is answered 400 without a lookup in the users table, without
\* a password comparison and without a change to any user's counter or
\* lock-expiry, whatever the state of the account it names.
C15_InvalidBeforeLookup == [][C15_Refused]_vars

\* 400 for a request that names a locked account
C15_Witness ==
    /\ res.op = "login" /\ res.status = 400 /\ res.username = "admin"
    /\ LockedNow("admin")

(* ---------------- C16 ---------------- *)
\* the last request went through the audit wrapper
Audited == res.op = "auditLog" \/ (res.op = "logout" /\ res.db # "")

C16_NextOnce ==
    Audited =>
        /\ res.nextCalls = 1
        /\ (res.rows # {}) <=> (res.db = "open" /\ res.insert = "ok")
        /\ res.op = "auditLog" => res.status = 0
        /\ res.op = "logout" => (res.status = 200 /\ res.presented \in tokenBlacklist)

\* the audited logout answers and revokes as the logout without audit does
C16_SameResponse ==
    (res'.op = "logout" /\ res'.db # "") =>
        LET h == <<"Bearer", res'.presented>>
            a == authenticate(h, tokenBlacklist, now)
        IN /\ [res' EXCEPT !.action = "", !.body = <<>>, !.db = "", !.insert = "",
                           !.nextCalls = 0, !.rows = {}]
                 = Answer("logout", res'.ip, h, a)
           /\ tokenBlacklist' = IF a.next /\ a.token # NoToken
                                 THEN revokeToken(tokenBlacklist, a.token)
                                 ELSE tokenBlacklist

\* C16: whatever the audit insert does (succeeds, throws, or is skipped
\* because the database handle is absent or closed), the audit wrapper calls
\* the next handler exactly once and writes no response of its own, and the
\* audited request is answered as it is without the audit step.
C16_AuditNeverBlocks == [](C16_NextOnce) /\ [][C16_SameResponse]_vars

\* a logout that succeeds although the audit insert threw
C16_Witness ==
    /\ res.op = "logout" /\ res.status = 200
    /\ res.db = "open" /\ res.insert = "throws" /\ res.rows = {}

(* ---------------- C17 ---------------- *)
\* the property names above that contain "password", "token" or "captcha"
C17_SensitiveKeys == {K_password, K_hcaptcha, K_resetToken}

\* C17: the body stored in the audit record has exactly the keys of the
\* request body; under a key that contains "password", "token" or "captcha"
\* it holds the redaction marker, under every other key the original value.
C17_RedactedCopy ==
    (res.op = "auditLog" /\ res.rows # {}) =>
        \A row \in res.rows :
            LET copy == row.details.body IN
            /\ DOMAIN copy = DOMAIN res.body
            /\ \A k \in DOMAIN res.body \cap DOMAIN copy :
                  copy[k] = IF k \in C17_SensitiveKeys THEN Redacted ELSE res.body[k]

(* ---------------- C18 ---------------- *)
\* what the client sees of an answer of the login handler
Response(out) == [status |-> out.status, error |-> out.error, token |-> out.token,
                  user |-> out.user]

\* in the current state, a wrong password for an unlocked account is
\* answered exactly as the same request for a username that does not exist
C18_SameAnswer ==
    \A u \in Usernames, p \in PasswordInputs \ {""}, ip \in IPs :
        (~LockedNow(u) /\ ~bcryptCompare(p, users[u].password_hash)) =>
            Response(loginHandler(users, u, p, "pass", ip, now))
              = Response(loginHandler(users, "ghost", p, "pass", ip, now))

C18_Failure ==
    (LoginStep /\ res'.valid /\ res'.status \notin {200, 423, 429}) =>
        /\ res'.status = 401 /\ res'.error = "Invalid credentials"
        /\ res'.token = NoToken /\ res'.user = NoUser
        /\ res'.username \notin Usernames => (users' = users /\ ~res'.compared)

\* C18: a login that reaches the handler with an unknown username and one
\* with a known, unlocked username and a wrong password get the same
\* response, 401 'Invalid credentials' with nothing else in it; the attempt
\* with the unknown username changes no user record.
C18_NoUsernameOracle == [](C18_SameAnswer) /\ [][C18_Failure]_vars

\* 401 for a username that does not exist while admin is one failure away
\* from the lock
C18_Witness ==
    /\ res.op = "login" /\ res.status = 401 /\ res.username = "ghost"
    /\ users["admin"].login_attempts = 4 /\ ~LockedNow("admin")

(* ---------------- C19 ---------------- *)
C19_Below ==
    \A u \in Usernames : ~LockedNow(u) => users[u].login_attempts < 5

\* a failure that sets a lock is one that read the counter at 4 or above
\* after at least 4 failures in a row since the last lock or success
C19_FiveAgain ==
    (LoginStep /\ res'.compared /\ res'.status = 401
        /\ users'[res'.username].locked_until # NULL)
        => res'.attemptsRead = 4

\* C19: in every reachable state a user whose lock-expiry is null or not in
\* the future has a counter below 5; so after a lock has expired it takes 5
\* failed attempts again (the counter going from 0 to 5) to lock the user.
C19_UnlockedBelowThreshold == [](C19_Below) /\ [][C19_FiveAgain]_vars

(* ---------------- C20 ---------------- *)
\* the step is the second half of a login: the comparison has resolved
FinishStep == res'.op = "login" /\ res'.compared /\ pending' # pending

FailedFinish == FinishStep /\ res'.status = 401

\* the counter written is the value read before the comparison, plus one
C20_WriteBack ==
    FailedFinish => users'[res'.username].login_attempts = res'.attemptsRead + 1

\* a failed attempt that no other request for the same user overlapped
\* raises the stored counter by exactly one
C20_Sequential ==
    (FailedFinish /\ ~res'.overlapped) =>
        users'[res'.username].login_attempts = users[res'.username].login_attempts + 1

C21_FailureKeepsLock ==
    [][(FailedFinish /\ LockedNow(res'.username)) =>
           /\ users'[res'.username].locked_until # NULL
           /\ users'[res'.username].locked_until >= users[res'.username].locked_until]_vars

(* ---------------- the browser's tabs ---------------- *)
\* the address the browser's requests come from
ClientIP == 1

serverVars == <<now, users, tokenBlacklist, authStore, held, res, admitted, pending>>

\* one more request on the limiter's store; the count of a client that is
\* being rejected is not carried further
clientHit(entry, t) ==
    IF entry.hits > authMax /\ t < entry.reset THEN entry ELSE limiterHit(entry, t)

\* the stored fingerprint is not the one this browser computes
fingerprintMismatch ==
    /\ localStorage.auth_session # NoItem
    /\ localStorage.auth_fingerprint # generateFingerprint(device)

clearTimers(tab) == [tab EXCEPT !.warningTimer = NULL, !.sessionTimer = NULL]

\* startSessionTimer run at t
startSessionTimer(tab, t) ==
    [tab EXCEPT !.warningTimer = t + (sessionTimeout - warningTime),
                !.sessionTimer = t + sessionTimeout]

\* window.location.href = page: the page of the tab goes away, with its
\* timers and whatever it was waiting for
redirect(tab, page) ==
    [clearTimers(tab) EXCEPT !.page = page, !.loaded = FALSE, !.pc = "idle",
                             !.sent = NoToken, !.storageEvent = FALSE]

redirectToLogin(tab) == redirect(tab, "login")

redirectToAdmin(tab) == redirect(tab, "admin")

\* the storage event that the removal of auth_session by tab from queues
\* for the AuthManager of every other tab
Notify(tabsNow, from, removed) ==
    [t \in Tabs |->
        IF t # from /\ removed /\ tabsNow[t].loaded
        THEN [tabsNow[t] EXCEPT !.storageEvent = TRUE]
        ELSE tabsNow[t]]

\* AuthManager.handleLogout in tab t: clearSession, clearTimers,
\* currentUser = null, redirectToLogin
handleLogout(t, kind) ==
    /\ localStorage' = NoStorage
    /\ tabs' = Notify([tabs EXCEPT ![t] =
                          redirectToLogin([tabs[t] EXCEPT !.auth_active = FALSE,
                                                           !.currentUser = ""])],
                      t, localStorage.auth_session # NoItem)
    /\ event' = [kind |-> kind, tab |-> t, token |-> getTokenFromStorage(localStorage),
                 mismatch |-> fingerprintMismatch]

\* DOMContentLoaded in tab t on page: new AuthManager(), that is
\* checkExistingSession up to its await
LoadPage(t, page) ==
    LET tab == [clearTimers(tabs[t]) EXCEPT !.page = page, !.loaded = TRUE,
                                            !.pc = "idle", !.sent = NoToken,
                                            !.currentUser = "", !.storageEvent = FALSE]
        sessionData == getSession(localStorage, device)
    IN
    /\ IF isSessionValid(sessionData, tab.auth_active, now)
       THEN /\ tabs' = [tabs EXCEPT ![t] = [tab EXCEPT !.pc = "verifying",
                                                       !.sent = sessionData.token]]
            /\ UNCHANGED localStorage
       ELSE /\ localStorage' = NoStorage
            /\ tabs' = Notify([tabs EXCEPT ![t] =
                                  LET cleared == [tab EXCEPT !.auth_active = FALSE]
                                  IN IF page = "admin" THEN redirectToLogin(cleared)
                                     ELSE cleared],
                              t, localStorage.auth_session # NoItem)
    /\ event' = [kind |-> "load", tab |-> t, token |-> getTokenFromStorage(localStorage),
                 mismatch |-> fingerprintMismatch]
    /\ UNCHANGED <<device, serverVars>>

\* GET /api/auth/verify is answered and checkExistingSession goes on
VerifyReturn(t) ==
    LET tab == tabs[t]
        authHeader == <<"Bearer", tab.sent>>
        entry == clientHit(authStore[ClientIP], now)
        a == authenticate(authHeader, tokenBlacklist, now)
        isValidToken == ~limiterBlocks(entry) /\ a.status = 200
    IN
    /\ tab.loaded /\ tab.pc = "verifying"
    /\ authStore' = [authStore EXCEPT ![ClientIP] = entry]
    /\ res' = IF limiterBlocks(entry)
              THEN [TooMany("verify", ClientIP, now) EXCEPT !.presented = tab.sent]
              ELSE Answer("verify", ClientIP, authHeader, a)
    /\ IF isValidToken
       THEN /\ tabs' = [tabs EXCEPT ![t] =
                           IF tab.page = "login"
                           THEN redirectToAdmin(tab)
                           ELSE startSessionTimer(
                                    [tab EXCEPT !.pc = "idle", !.sent = NoToken,
                                                !.currentUser = a.user.username],
                                    now)]
            /\ UNCHANGED localStorage
       ELSE /\ localStorage' = NoStorage
            /\ tabs' = Notify([tabs EXCEPT ![t] =
                                  LET cleared == [tab EXCEPT !.pc = "idle",
                                                             !.sent = NoToken,
                                                             !.auth_active = FALSE]
                                  IN IF tab.page = "admin" THEN redirectToLogin(cleared)
                                     ELSE cleared],
                              t, localStorage.auth_session # NoItem)
    /\ event' = [kind |-> IF isValidToken THEN "restored" ELSE "rejected", tab |-> t,
                 token |-> tab.sent, mismatch |-> fingerprintMismatch]
    /\ UNCHANGED <<now, users, tokenBlacklist, held, admitted, pending, device>>

\* the login form is submitted: handleLogin with POST /api/auth/login, and
\* handleSuccessfulLogin or handleFailedLogin
SubmitLogin(t, username, password) ==
    LET tab == tabs[t]
        entry == clientHit(authStore[ClientIP], now)
        out == loginHandler(users, username, password, "pass", ClientIP, now)
        ok == ~limiterBlocks(entry) /\ out.status = 200
        sessionData == [token |-> out.token, username |-> out.user.username,
                        role |-> out.user.role, loginTime |-> now,
                        expiresAt |-> now + sessionTimeout]
    IN
    /\ tab.loaded /\ tab.page = "login" /\ tab.pc = "idle"
    /\ out.token \in held \/ Cardinality(held) < MaxHeld
    /\ held' = IF ok THEN held \cup {out.token} ELSE held
    /\ authStore' = [authStore EXCEPT ![ClientIP] = entry]
    /\ users' = IF limiterBlocks(entry) THEN users ELSE out.users
    /\ res' = IF limiterBlocks(entry)
              THEN [TooMany("login", ClientIP, now) EXCEPT !.username = username,
                                                           !.valid = TRUE]
              ELSE [NoRes EXCEPT !.op = "login", !.ip = ClientIP, !.at = now,
                                 !.status = out.status, !.error = out.error,
                                 !.token = out.token, !.user = out.user,
                                 !.username = username, !.valid = TRUE,
                                 !.compared = out.compared,
                                 !.attemptsRead = out.attemptsRead]
    /\ IF ok
       THEN /\ localStorage' = storeSession(sessionData, device)
            /\ tabs' = [tabs EXCEPT ![t] =
                           redirectToAdmin([tab EXCEPT !.auth_active = TRUE,
                                                       !.currentUser = out.user.username])]
       ELSE UNCHANGED <<localStorage, tabs>>
    /\ event' = [kind |-> IF ok THEN "login" ELSE "loginFailed", tab |-> t,
                 token |-> out.token, mismatch |-> FALSE]
    /\ UNCHANGED <<now, tokenBlacklist, admitted, pending, device>>

\* an extension that also moves the expiry claim of the token
extend_Token(sessionData, t) ==
    [sessionData EXCEPT !.expiresAt = t + sessionTimeout,
                        !.token.claims.exp = t + tokenLifetime]

\* sessionData.expiresAt = Date.now() + this.sessionTimeout
extend(sessionData, t) == [sessionData EXCEPT !.expiresAt = t + sessionTimeout]

\* mousedown, mousemove, keypress, scroll or touchstart in tab t: extendSession
Activity(t) ==
    LET tab == tabs[t]
        sessionData == getSession(localStorage, device)
    IN
    /\ tab.loaded /\ ~tab.hidden
    /\ IF isSessionValid(sessionData, tab.auth_active, now)
       THEN /\ localStorage' =
                   storeSession(extend(sessionData, now), device)
            /\ tabs' = [tabs EXCEPT ![t] =
                           startSessionTimer([tab EXCEPT !.auth_active = TRUE], now)]
       ELSE UNCHANGED <<localStorage, tabs>>
    /\ event' = [kind |-> "activity", tab |-> t,
                 token |-> getTokenFromStorage(localStorage),
                 mismatch |-> fingerprintMismatch]
    /\ UNCHANGED <<device, serverVars>>

\* visibilitychange to hidden: pauseSession
Hide(t) ==
    /\ tabs[t].loaded /\ ~tabs[t].hidden
    /\ tabs' = [tabs EXCEPT ![t] = [clearTimers(tabs[t]) EXCEPT !.hidden = TRUE]]
    /\ event' = [kind |-> "hide", tab |-> t, token |-> getTokenFromStorage(localStorage),
                 mismatch |-> FALSE]
    /\ UNCHANGED <<localStorage, device, serverVars>>

\* visibilitychange to visible: resumeSession
Show(t) ==
    LET tab == [tabs[t] EXCEPT !.hidden = FALSE]
        sessionData == getSession(localStorage, device)
    IN
    /\ tabs[t].loaded /\ tabs[t].hidden
    /\ IF isSessionValid(sessionData, tab.auth_active, now)
       THEN /\ tabs' = [tabs EXCEPT ![t] = startSessionTimer(tab, now)]
            /\ event' = [kind |-> "resume", tab |-> t,
                         token |-> getTokenFromStorage(localStorage), mismatch |-> FALSE]
            /\ UNCHANGED localStorage
       ELSE /\ localStorage' = NoStorage
            /\ tabs' = Notify([tabs EXCEPT ![t] =
                                  redirectToLogin([tab EXCEPT !.auth_active = FALSE,
                                                              !.currentUser = ""])],
                              t, localStorage.auth_session # NoItem)
            /\ event' = [kind |-> "resumeLogout", tab |-> t,
                         token |-> getTokenFromStorage(localStorage),
                         mismatch |-> fingerprintMismatch]
    /\ UNCHANGED <<device, serverVars>>

\* the warning timer of tab t fires: showSessionWarning
WarningFires(t) ==
    /\ tabs[t].loaded /\ tabs[t].warningTimer = now
    /\ tabs' = [tabs EXCEPT ![t].warningTimer = NULL]
    /\ event' = [kind |-> "warning", tab |-> t,
                 token |-> getTokenFromStorage(localStorage), mismatch |-> FALSE]
    /\ UNCHANGED <<localStorage, device, serverVars>>

\* the logout timer of tab t fires: handleSessionTimeout
TimeoutFires(t) ==
    /\ tabs[t].loaded /\ tabs[t].sessionTimer = now
    /\ handleLogout(t, "timeout")
    /\ UNCHANGED <<device, serverVars>>

\* the storage listener of tab t runs for a removal of auth_session
OnStorage(t) ==
    /\ tabs[t].loaded /\ tabs[t].storageEvent
    /\ handleLogout(t, "storage")
    /\ UNCHANGED <<device, serverVars>>

\* the logout button of the admin page, confirmed: handleLogout of the admin
\* page up to its fetch of POST /api/auth/logout; the request is taken to
\* reach the server although the page is left
AdminLogout(t) ==
    LET tab == tabs[t]
        token == getTokenFromStorage(localStorage)
        left == redirectToLogin([tab EXCEPT !.auth_active = FALSE, !.currentUser = ""])
    IN
    /\ tab.loaded /\ tab.page = "admin"
    /\ localStorage' = NoStorage
    /\ tabs' = [tabs EXCEPT ![t] =
                   IF token # NoToken
                   THEN [left EXCEPT !.logoutSent = token]
                   ELSE left]
    /\ event' = [kind |-> "adminLogout", tab |-> t, token |-> token, mismatch |-> FALSE]
    /\ UNCHANGED <<device, serverVars>>

\* POST /api/auth/logout of the admin page's logout reaches the server
LogoutDelivered(t) ==
    LET tab == tabs[t]
        authHeader == <<"Bearer", tab.logoutSent>>
        entry == clientHit(authStore[ClientIP], now)
        a == authenticate(authHeader, tokenBlacklist, now)
    IN
    /\ tab.logoutSent # NoToken
    /\ authStore' = [authStore EXCEPT ![ClientIP] = entry]
    /\ IF limiterBlocks(entry)
       THEN /\ res' = [TooMany("logout", ClientIP, now) EXCEPT !.presented = tab.logoutSent]
            /\ UNCHANGED tokenBlacklist
       ELSE /\ res' = Answer("logout", ClientIP, authHeader, a)
            /\ tokenBlacklist' = IF a.next /\ a.token # NoToken
                                 THEN revokeToken(tokenBlacklist, a.token)
                                 ELSE tokenBlacklist
    /\ tabs' = [tabs EXCEPT ![t] = [tab EXCEPT !.logoutSent = NoToken]]
    /\ event' = [kind |-> "logoutDelivered", tab |-> t, token |-> tab.logoutSent,
                 mismatch |-> FALSE]
    /\ UNCHANGED <<now, users, held, admitted, pending, localStorage, device>>

\* the stored fingerprint is replaced from outside the AuthManager (the
\* browser's storage tools, another script of the origin)
Tamper ==
    /\ localStorage.auth_session # NoItem
    /\ localStorage.auth_fingerprint # ForeignFingerprint
    /\ localStorage' = [localStorage EXCEPT !.auth_fingerprint = ForeignFingerprint]
    /\ event' = [NoEvent EXCEPT !.kind = "tamper"]
    /\ UNCHANGED <<tabs, device, serverVars>>

\* the browser window moves to another display
ChangeDisplay ==
    /\ \E d \in Devices \ {device} : device' = d
    /\ event' = [NoEvent EXCEPT !.kind = "display"]
    /\ UNCHANGED <<localStorage, tabs, serverVars>>

\* time passes in the browser: no timer is skipped
Advance ==
    /\ now + warningTime \in ClientInstants
    /\ \A t \in Tabs :
          /\ tabs[t].warningTimer = NULL \/ tabs[t].warningTimer > now
          /\ tabs[t].sessionTimer = NULL \/ tabs[t].sessionTimer > now
    /\ now' = now + warningTime
    /\ res' = NoRes
    /\ event' = NoEvent
    /\ UNCHANGED <<users, tokenBlacklist, authStore, held, admitted, pending,
                   localStorage, tabs, device>>

\* the tab that the user works in
MirrorTabs == {1}

\* one tab of the browser, and the server
MirrorNext ==
    \/ \E t \in MirrorTabs, page \in {"login", "admin"} : LoadPage(t, page)
    \/ \E t \in MirrorTabs : VerifyReturn(t)
    \/ \E t \in MirrorTabs : SubmitLogin(t, "admin", "pwA")
    \/ \E t \in MirrorTabs : Activity(t)
    \/ \E t \in MirrorTabs : Hide(t)
    \/ \E t \in MirrorTabs : Show(t)
    \/ \E t \in MirrorTabs : WarningFires(t)
    \/ \E t \in MirrorTabs : TimeoutFires(t)
    \/ \E t \in MirrorTabs : AdminLogout(t)
    \/ \E t \in MirrorTabs : LogoutDelivered(t)
    \/ Advance

SpecMirror == Init /\ [][MirrorNext]_vars

\* the same, where a logout request that stays in flight is answered in
\* the end
SpecMirrorFair == SpecMirror /\ WF_vars(\E t \in MirrorTabs : LogoutDelivered(t))

\* one tab of a browser whose display and stored fingerprint change
TamperNext ==
    \/ \E t \in MirrorTabs, page \in {"login", "admin"} : LoadPage(t, page)
    \/ \E t \in MirrorTabs : VerifyReturn(t)
    \/ \E t \in MirrorTabs : SubmitLogin(t, "admin", "pwA")
    \/ \E t \in MirrorTabs : Activity(t)
    \/ \E t \in MirrorTabs : Hide(t)
    \/ \E t \in MirrorTabs : Show(t)
    \/ \E t \in MirrorTabs : WarningFires(t)
    \/ \E t \in MirrorTabs : TimeoutFires(t)
    \/ Tamper
    \/ ChangeDisplay
    \/ Advance

SpecTamper == Init /\ [][TamperNext]_vars

(* ---------------- verifyToken and the address of the request ---------------- *)
\* the values of process.env.STRICT_IP_CHECK
StrictSettings == {"true", "false", "unset"}

\* the addresses of the clients, and one address that no token is issued to
RoamIPs == IPs \cup {NumIPs + 1}

\* verifyToken rejecting a token presented from another address than the
\* one in its ip claim when STRICT_IP_CHECK is 'true'
verifyTokenReq_Reject(token, currentIP, strict, blacklist, t) ==
    LET v == verifyToken(token, blacklist, t) IN
    IF v.ok /\ strict = "true" /\ v.decoded.ip # currentIP
    THEN [ok |-> FALSE, decoded |-> NoClaims, error |-> "IP mismatch", warned |-> TRUE]
    ELSE [ok |-> v.ok, decoded |-> v.decoded, error |-> v.error, warned |-> FALSE]

\* verifyToken(token, req) with req.ip and the environment as inputs: the
\* IP consistency check writes a warning and changes nothing else
verifyTokenReq(token, currentIP, strict, blacklist, t) ==
    LET v == verifyToken(token, blacklist, t) IN
    [ok |-> v.ok, decoded |-> v.decoded, error |-> v.error,
     warned |-> v.ok /\ strict = "true" /\ v.decoded.ip # currentIP]

\* sessionManager.verifyToken(token, req) for a request from ip
CallVerifyFrom(tok, ip, strict) ==
    LET v == verifyTokenReq(tok, ip, strict, tokenBlacklist, now) IN
    /\ res' = [NoRes EXCEPT !.op = "verifyTokenReq", !.at = now, !.ip = ip,
                            !.presented = tok, !.strict = strict,
                            !.wasRevoked = tok \in tokenBlacklist,
                            !.status = IF v.ok THEN 200 ELSE 403, !.error = v.error,
                            !.user = [id |-> v.decoded.id, username |-> v.decoded.username,
                                      role |-> v.decoded.role],
                            !.warned = v.warned]
    /\ UNCHANGED <<now, users, tokenBlacklist, authStore, held, admitted, pending>>
    /\ UNCHANGED clientVars

\* tokens issued to the clients and presented from any address
RoamNext ==
    \/ \E u \in Usernames, ip \in IPs : CallGenerate(u, ip)
    \/ Keep(MaxHeld)
    \/ \E tok \in held : CallRevoke(tok)
    \/ \E tok \in Presentable, ip \in RoamIPs, strict \in StrictSettings :
           CallVerifyFrom(tok, ip, strict)
    \/ Tick(MaxTime)

SpecRoam == Init /\ [][RoamNext]_vars

(* ---------------- C22 ---------------- *)
\* what a call of verifyToken gives its caller
C22_Outcome(v) ==
    <<v.ok, v.error, v.decoded.id, v.decoded.username, v.decoded.role>>

\* C22: verifyToken never rejects because of an IP mismatch: the same token
\* presented from any other address (the one in its ip claim or a different
\* one), with STRICT_IP_CHECK 'true' or not, gets the same outcome.
C22_IpNeverRejects ==
    res.op = "verifyTokenReq" =>
        \A ip \in RoamIPs, strict \in StrictSettings :
            C22_Outcome(verifyTokenReq(res.presented, ip, strict, tokenBlacklist, now))
                = <<res.status = 200, res.error, res.user.id, res.user.username,
                    res.user.role>>

\* a token presented from another address than the one it was issued to,
\* under STRICT_IP_CHECK = 'true', is accepted (and the mismatch is logged)
C22_Witness ==
    /\ res.op = "verifyTokenReq" /\ res.strict = "true"
    /\ res.presented \in held /\ res.presented.claims.ip # res.ip
    /\ res.warned /\ res.status = 200

(* ---------------- C23 ---------------- *)
\* the session record in localStorage, read without any check
Mirror == Decode(localStorage.auth_session)

\* the AuthManager of tab t finds a valid session
MirrorValid(t) ==
    isSessionValid(getSession(localStorage, device), tabs[t].auth_active, now)

\* the token of the mirror expires 30 minutes after the login, whatever the
\* client-computed expiry says, and from then on Verify answers 'jwt expired'
C23_ServerExpiryFixed ==
    localStorage.auth_session # NoItem =>
        /\ Mirror.token.claims.exp = Mirror.loginTime + tokenLifetime
        /\ now >= Mirror.loginTime + tokenLifetime =>
               verifyToken(Mirror.token, tokenBlacklist, now).error = "jwt expired"

\* a session is restored only with a token that has not expired
C23_Restored == event.kind = "restored" => now < event.token.claims.exp

\* an activity event changes neither the token nor the revocation registry
C23_ExtensionKeepsToken ==
    event'.kind = "activity" =>
        /\ getTokenFromStorage(localStorage') = getTokenFromStorage(localStorage)
        /\ tokenBlacklist' = tokenBlacklist

\* C23: the client-side extension never changes the server's expiry of
\* issuance time + 30 minutes: the mirrored token is rejected as expired from
\* then on, also while activity events have pushed the client-computed expiry
\* past now and the mirror counts as valid in the browser.
C23_ExpiryAsymmetry ==
    [](C23_ServerExpiryFixed /\ C23_Restored) /\ [][C23_ExtensionKeepsToken]_vars

\* the mirror is valid in a tab, its expiry has been extended, and the
\* server rejects its token as expired
C23_Witness ==
    \E t \in Tabs :
        /\ MirrorValid(t)
        /\ Mirror.expiresAt > Mirror.loginTime + sessionTimeout
        /\ Mirror.expiresAt > now
        /\ ~verifyToken(Mirror.token, tokenBlacklist, now).ok
        /\ verifyToken(Mirror.token, tokenBlacklist, now).error = "jwt expired"

(* ---------------- C24 ---------------- *)
\* the steps in which the AuthManager reads the mirror with getSession
ReadKinds == {"load", "activity", "resume", "resumeLogout"}

\* C24 as claimed: whenever the mirror is read while the recomputed
\* fingerprint differs from the stored one, the read yields no session and
\* the stored session record is removed, so that no later read (such as
\* getTokenFromStorage of the admin page) can obtain the token from it.
C24_MismatchDiscards ==
    [][(event'.kind \in ReadKinds /\ event'.mismatch) =>
           /\ getSession(localStorage, device) = NoSession
           /\ localStorage'.auth_session = NoItem
           /\ getTokenFromStorage(localStorage') = NoToken]_vars

(* ---------------- C25 ---------------- *)
\* when the warning timer has fired, the stored expiry is 5 minutes ahead
C25_Warning ==
    (event.kind = "warning" /\ localStorage.auth_session # NoItem) =>
        Mirror.expiresAt = now + warningTime

\* when the logout timer fires, the stored expiry has been reached
C25_Timeout ==
    (event'.kind = "timeout" /\ localStorage.auth_session # NoItem) =>
        now >= Mirror.expiresAt

\* C25 as claimed: the session timers track the client-computed expiry:
\* whenever the warning timer fires the stored expiry is exactly 5 minutes in
\* the future, and whenever the logout timer fires the stored expiry has been
\* reached, after any sequence of login, restore on page load, activity and
\* tab hide/show.
C25_TimersTrackExpiry == [](C25_Warning) /\ [][C25_Timeout]_vars

(* ---------------- C26 ---------------- *)
\* the client logout flows that discard the mirror: the logout button of the
\* admin page, the logout timer, a resume with an invalid mirror, and the
\* storage event of another tab's logout
LogoutKinds == {"adminLogout", "timeout", "resumeLogout", "storage"}

\* the tokens that the server can have issued to the browser
MirrorTokens ==
    {generateToken(InitUsers["admin"], ClientIP, "unknown", t) : t \in ClientInstants}

\* C26 as claimed: every client logout flow that discards the mirror
\* eventually results in the mirrored token being in the server's revocation
\* registry.
C26_LogoutRevokes ==
    \A tok \in MirrorTokens :
        (event.kind \in LogoutKinds /\ event.token = tok) ~> (tok \in tokenBlacklist)

(* ---------------- C27 ---------------- *)
\* a genuine token that is within its lifetime
C27_Live(tok) == Genuine(tok) /\ now < tok.claims.exp

\* a restart leaves the user records alone and empties the registry, so that
\* every revoked token that is still within its lifetime passes verifyToken
\* and the authentication middleware again
C27_Restart ==
    Restart =>
        /\ users' = users
        /\ \A tok \in tokenBlacklist :
               C27_Live(tok) =>
                   /\ ~verifyToken(tok, tokenBlacklist, now).ok
                   /\ verifyToken(tok, tokenBlacklist', now').ok
                   /\ authenticate(<<"Bearer", tok>>, tokenBlacklist', now').status = 200

\* the first request after a restart that presents such a token to
\* GET /api/auth/verify is answered 200
C27_VerifyAfter ==
    (/\ res.op = "restart" /\ res'.op = "verify"
     /\ res'.presented \in res.dropped /\ C27_Live(res'.presented)) =>
        res'.status = 200

\* C27: the revocation registry does not survive a restart of the process: a
\* token that was revoked by logout and is still within its 30 minutes passes
\* Verify again after the restart, while the lock state and the
\* failed-attempt counter of every user are unchanged by the restart.
C27_RegistryLostOnRestart == [][C27_Restart /\ C27_VerifyAfter]_vars

\* after a restart: a token that a client holds and that logout had revoked
\* is accepted, and the counter of a user with failed attempts is still there
C27_Witness ==
    /\ res.op = "restart"
    /\ \E tok \in res.dropped \cap held :
           /\ C27_Live(tok)
           /\ authenticate(<<"Bearer", tok>>, tokenBlacklist, now).status = 200
    /\ \E u \in Usernames : users[u].login_attempts > 0

(* ---------------- login with a failing credential store ---------------- *)
\* what can fail in the store during one login request: nothing, the SELECT
\* of the user, or the UPDATE of the counter and the lock
DbFaults == {"none", "select", "update"}

\* the login handler with a store that fails as fault says: the SELECT is
\* inside the try whose catch answers 500; either UPDATE is inside a try of
\* its own whose catch only logs
loginHandlerDb(table, usernameIn, password, captcha, ip, t, fault) ==
    LET out == loginHandler(table, usernameIn, password, captcha, ip, t) IN
    IF fault = "none" \/ out.status = 400 THEN out
    ELSE IF fault = "select"
    THEN [status |-> 500, error |-> "Database error", users |-> table,
          token |-> NoToken, user |-> NoUser, compared |-> FALSE,
          attemptsRead |-> NULL]
    ELSE IF out.compared THEN [out EXCEPT !.users = table]
    ELSE out

\* POST /api/auth/login while the store fails as fault says
LoginDb(ip, usernameIn, password, captcha, fault) ==
    LET entry == limiterHit(authStore[ip], now)
        out == loginHandlerDb(users, usernameIn, password, captcha, ip, now, fault)
    IN
    /\ authStore[ip].hits <= authMax \/ now >= authStore[ip].reset
    /\ authStore' = [authStore EXCEPT ![ip] = entry]
    /\ IF limiterBlocks(entry)
       THEN /\ res' = [TooMany("login", ip, now) EXCEPT
                               !.username = Trim(usernameIn),
                               !.valid = validInput(usernameIn, password)
                                           /\ verifyCaptcha(captcha),
                               !.fault = fault]
            /\ UNCHANGED users
       ELSE /\ users' = out.users
            /\ res' = [NoRes EXCEPT !.op = "login", !.ip = ip, !.at = now,
                                    !.status = out.status, !.error = out.error,
                                    !.token = out.token, !.user = out.user,
                                    !.username = Trim(usernameIn),
                                    !.valid = validInput(usernameIn, password)
                                                /\ verifyCaptcha(captcha),
                                    !.compared = out.compared,
                                    !.attemptsRead = out.attemptsRead,
                                    !.fault = fault]
    /\ admitted' = recordAdmitted(admitted, ip, now, limiterBlocks(entry))
    /\ UNCHANGED <<now, tokenBlacklist, held, pending>>
    /\ UNCHANGED clientVars

\* logins while the store fails now and then
FaultNext ==
    \/ \E ip \in IPs, u \in Usernames, p \in {"pwA", "pwE"}, fault \in DbFaults :
           LoginDb(ip, u, p, "pass", fault)
    \/ Tick(LoginHorizon)
    \/ Restart

SpecFault == Init /\ [][FaultNext]_vars

(* ---------------- C28 ---------------- *)
\* a login request that got as far as the store operation that fails
C28_StoreFailed ==
    /\ res'.op = "login" /\ res'.status # 429 /\ res'.valid
    /\ \/ res'.fault = "select"
       \/ res'.fault = "update" /\ res'.compared

\* C28 as claimed: any credential-store failure during a login request is
\* answered with 500 and a generic message and no token is issued in that
\* request, for a failure of the user lookup as well as of the counter/lock
\* update on the failed-password path and of the counter reset on the
\* successful-password path.
C28_StoreFailureIs500 ==
    [][C28_StoreFailed =>
           /\ res'.status = 500
           /\ res'.error \in {"Database error", "Internal server error"}
           /\ res'.token = NoToken]_vars

(* ---------------- audited routes ---------------- *)
\* a login chain that runs authenticateToken ahead of the audit step
loginReqUser_Authenticated(authHeader, blacklist, t) ==
    authenticate(authHeader, blacklist, t).user

\* req.user when auditLog('LOGIN_ATTEMPT') runs: the login chain is the two
\* validators, the audit step and the handler, and none of them reads the
\* Authorization header, so req.user is undefined whatever the request carries
loginReqUser(authHeader, blacklist, t) == NoClaims

\* the audited endpoints behind authenticateToken other than logout
AdminActions == {"VIEW_ADMIN_BLOGS", "CREATE_BLOG", "UPDATE_BLOG", "DELETE_BLOG",
                 "VIEW_ANON_MESSAGES", "VIEW_SUBSCRIBERS", "SEND_CUSTOM_EMAIL"}

AdminRoute(action) ==
    IF action = "VIEW_ADMIN_BLOGS" THEN [method |-> "GET", url |-> "/api/admin/blogs"]
    ELSE IF action = "CREATE_BLOG" THEN [method |-> "POST", url |-> "/api/admin/blogs"]
    ELSE IF action = "UPDATE_BLOG" THEN [method |-> "PUT", url |-> "/api/admin/blogs/1"]
    ELSE IF action = "DELETE_BLOG" THEN [method |-> "DELETE", url |-> "/api/admin/blogs/1"]
    ELSE IF action = "VIEW_ANON_MESSAGES"
    THEN [method |-> "GET", url |-> "/api/admin/anon-messages"]
    ELSE IF action = "VIEW_SUBSCRIBERS"
    THEN [method |-> "GET", url |-> "/api/admin/subscribers"]
    ELSE [method |-> "POST", url |-> "/api/admin/send-email"]

\* POST /api/auth/login with its audit step: authLimiter, validators,
\* auditLog('LOGIN_ATTEMPT'), handler; authHeader is an Authorization header
\* the request may carry
AuditedLogin(ip, usernameIn, password, authHeader, db, insert) ==
    LET entry == limiterHit(authStore[ip], now)
        w == auditLog("LOGIN_ATTEMPT",
                      [user |-> loginReqUser(authHeader, tokenBlacklist, now),
                       method |-> "POST", url |-> "/api/auth/login",
                       body |-> [k \in {K_username, K_password} |->
                                    IF k = K_username THEN Trim(usernameIn) ELSE password],
                       ip |-> ip, ua |-> "unknown"],
                      db, insert)
        out == loginHandler(users, usernameIn, password, "pass", ip, now)
    IN
    /\ authStore[ip].hits <= authMax \/ now >= authStore[ip].reset
    /\ authStore' = [authStore EXCEPT ![ip] = entry]
    /\ IF limiterBlocks(entry)
       THEN /\ res' = [TooMany("login", ip, now) EXCEPT
                               !.presented = ExtractToken(authHeader),
                               !.username = Trim(usernameIn)]
            /\ UNCHANGED users
       ELSE /\ users' = out.users
            /\ res' = [NoRes EXCEPT !.op = "login", !.ip = ip, !.at = now,
                                    !.status = out.status, !.error = out.error,
                                    !.presented = ExtractToken(authHeader),
                                    !.token = out.token, !.user = out.user,
                                    !.username = Trim(usernameIn),
                                    !.valid = validInput(usernameIn, password),
                                    !.compared = out.compared,
                                    !.attemptsRead = out.attemptsRead,
                                    !.action = "LOGIN_ATTEMPT",
                                    !.nextCalls = w.nextCalls, !.rows = w.rows]
    /\ admitted' = recordAdmitted(admitted, ip, now, limiterBlocks(entry))
    /\ UNCHANGED <<now, tokenBlacklist, held, pending>>
    /\ UNCHANGED clientVars

\* an audited /api/admin/ endpoint: authenticateToken, validators,
\* auditLog(action), handler
AuditedAdmin(ip, authHeader, action, db, insert) ==
    LET a == authenticate(authHeader, tokenBlacklist, now)
        w == auditLog(action,
                      [user |-> a.user, method |-> AdminRoute(action).method,
                       url |-> AdminRoute(action).url,
                       body |-> <<>>, ip |-> ip, ua |-> "unknown"],
                      db, insert)
    IN
    /\ res' = IF ~a.next
              THEN [Answer("admin", ip, authHeader, a) EXCEPT !.action = action]
              ELSE [Answer("admin", ip, authHeader, a) EXCEPT
                        !.action = action,
                        !.nextCalls = w.nextCalls, !.rows = w.rows]
    /\ UNCHANGED <<now, users, tokenBlacklist, authStore, held, admitted, pending>>
    /\ UNCHANGED clientVars

\* the database handle and what the INSERT does; the INSERT is only reached
\* through an open handle
AuditOutcomes ==
    {o \in DbStates \X InsertOutcomes : o[1] = "open" \/ o[2] = "ok"}

ActorNext ==
    \/ \E ip \in IPs, p \in {"pwA", "pwE"}, h \in AuthHeaders, o \in AuditOutcomes :
          AuditedLogin(ip, "admin", p, h, o[1], o[2])
    \/ Keep(MaxHeld)
    \/ \E ip \in IPs, h \in AuthHeaders, o \in AuditOutcomes :
          AuditedLogout(ip, h, <<>>, o[1], o[2])
    \/ \E ip \in IPs, h \in AuthHeaders, action \in AdminActions, o \in AuditOutcomes :
          AuditedAdmin(ip, h, action, o[1], o[2])
    \/ Tick(OverflowHorizon)

SpecActor == Init /\ [][ActorNext]_vars

(* ---------------- C29 ---------------- *)
C29_Authenticated == AdminActions \cup {"LOGOUT"}

\* every LOGIN_ATTEMPT entry has no actor
C29_LoginActor ==
    \A row \in res.rows : row.action = "LOGIN_ATTEMPT" => row.user_id = NULL

\* every entry of an endpoint behind authenticateToken names the id claim of
\* the token that was presented
C29_TokenActor ==
    \A row \in res.rows :
        row.action \in C29_Authenticated =>
            /\ res.presented # NoToken
            /\ row.user_id = res.presented.claims.id
            /\ row.user_id # NULL

\* a request that authenticateToken rejected left no entry
C29_RejectedSilent ==
    (res.op \in {"logout", "admin"} /\ res.status \in {401, 403}) => res.rows = {}

\* C29: every LOGIN_ATTEMPT audit entry has a null actor, also when the login
\* goes on to succeed and also when the request carries a valid token; every
\* entry written by an endpoint behind authenticateToken has the id claim of
\* the presented token as actor; a request that authenticateToken rejects
\* writes no audit entry
C29_AuditActor == C29_LoginActor /\ C29_TokenActor /\ C29_RejectedSilent

\* a successful login that carried a valid token left an entry without actor,
\* and this state follows it: an admin request with that token left an entry
C29_Witness ==
    /\ res.op = "login" /\ res.status = 200
    /\ res.presented \in held /\ res.presented \notin tokenBlacklist
    /\ res.presented.claims.id # 0
    /\ \E row \in res.rows : row.action = "LOGIN_ATTEMPT" /\ row.user_id = NULL

(* ---------------- several tabs ---------------- *)
\* the tabs of one browser, each with its own AuthManager, and the server
TabsNext ==
    \/ \E t \in Tabs, page \in {"login", "admin"} : LoadPage(t, page)
    \/ \E t \in Tabs : VerifyReturn(t)
    \/ \E t \in Tabs : SubmitLogin(t, "admin", "pwA")
    \/ \E t \in Tabs : OnStorage(t)
    \/ \E t \in Tabs : WarningFires(t)
    \/ \E t \in Tabs : TimeoutFires(t)
    \/ Advance

SpecTabs == Init /\ [][TabsNext]_vars

(* ---------------- C30 ---------------- *)
\* tab u holds a valid session while tab t has an empty session storage
C30_SecondTab(t, u) ==
    /\ t # u
    /\ tabs[u].loaded /\ MirrorValid(u) /\ tabs[u].storageEvent = FALSE
    /\ ~tabs[t].auth_active

\* a page load in tab t
C30_Load(t) == event'.kind = "load" /\ event'.tab = t /\ tabs'[t] # tabs[t]

\* loading a page in a second tab leaves the shared record in place and
\* sends no removal to the tab that holds the session
C30_LoadKeepsSession ==
    \A t \in Tabs, u \in Tabs :
        (C30_SecondTab(t, u) /\ C30_Load(t)) =>
            /\ localStorage'.auth_session = localStorage.auth_session
            /\ ~tabs'[u].storageEvent

\* the flows that log a tab out
C30_LogoutKinds == {"timeout", "resumeLogout", "storage", "adminLogout"}

\* a removal is only sent to the other tabs by a tab that logged out
C30_OnlyAfterLogout ==
    \A u \in Tabs :
        (tabs'[u].storageEvent /\ ~tabs[u].storageEvent) =>
            event'.kind \in C30_LogoutKinds

\* C30: while one tab holds a valid session, loading a page that runs the
\* AuthManager in a second tab of the same browser (shared local storage, own
\* empty session storage) does not remove the shared session record and does
\* not make the first tab run its logout flow; a tab runs the cross-tab
\* logout only after another tab logged out
C30_MultiTabSafe == [][C30_LoadKeepsSession /\ C30_OnlyAfterLogout]_vars

====
